---- MODULE Spec2Model ----
(***************************************************************************)
(* Chunking, embedding store, retrieval and backfill of the earnings       *)
(* summarizer (src/src/rag_service.py, src/backfill_embeddings.py,         *)
(* src/earnings_summarizer.py, src/news_summarizer.py).                    *)
(*                                                                         *)
(* A Python str is a sequence of one-character strings; a list is a        *)
(* sequence.  The specifications of the module:                            *)
(*   SpecChunk   the three chunkers applied to bounded texts;              *)
(*   SpecSearch  semantic_search over bounded chunk tables;                *)
(*   Spec        the chunk store under add_*_embeddings and backfill_*;    *)
(*   SpecUnavailable  the same service without an embedding model;         *)
(*   SpecSentiment    determine_outlook_sentiment;                         *)
(*   SpecSummarize    save_summaries and the process_* runs;               *)
(*   SpecPause        the pauses of the backfill loops over long lists;    *)
(*   SpecExecutive    the LLM calls of generate_executive_summary;         *)
(*   SpecGuidance     the text extract_forward_guidance hands to the LLM;  *)
(*   SpecConverge     backfill_earnings_embeddings run again and again     *)
(*                    with skip_existing=True on a store without chunks.   *)
(***************************************************************************)
EXTENDS Integers, Sequences, FiniteSets, TLC

VARIABLES
    \* chunker specification: the text, the chunker applied, its arguments
    \* and what it returned
    cText, cOp, cArgs, cOut,
    \* search specification: similarity of every document_chunks and
    \* news_chunks row to the query, the call's arguments, what it returned
    sDocSim, sNewsSim, sArgs, sOut,
    \* store specification
    embedder,     \* PostgresRAGService.embedder is loaded
    calls,        \* earnings_calls: id -> raw_transcript
    summaries,    \* summaries: earnings call id -> its Summary records, by id
    news,         \* financial_news: id -> content
    status,       \* earnings_calls: id -> processing_status
    newsStatus,   \* financial_news: id -> processing_status
    docChunks,    \* document_chunks, committed rows
    newsChunks,   \* news_chunks, committed rows
    call,         \* the add_earnings_embeddings call in progress
    run,          \* the backfill run in progress
    last,         \* the call that returned last: what it was and returned
    \* sentiment specification: occurrences of each word form in the
    \* transcript, the LLM's response, what the classification returned
    oTranscript, oResponse, oOut,
    \* summarization specification (with calls, summaries and news)
    newsSummaries,  \* news_summaries: news id -> its NewsSummary records
    sumRun,         \* the process_* run in progress
    sumLast,        \* the process_* run that ended last
    \* pacing specification: the loop of a backfill run over a long list
    walk,
    \* executive summary specification: generate_executive_summary in progress
    execRun,
    \* forward guidance specification: which lines of the transcript hold a
    \* guidance keyword, and the text extract_forward_guidance built
    gLines, gOut

chunkVars == <<cText, cOp, cArgs, cOut>>
searchVars == <<sDocSim, sNewsSim, sArgs, sOut>>
dataVars == <<embedder, calls, summaries, news, status, newsStatus>>
storeVars == <<dataVars, docChunks, newsChunks, call, run, last>>
baseVars == <<chunkVars, searchVars, storeVars>>
sentVars == <<oTranscript, oResponse, oOut>>
sumVars == <<newsSummaries, sumRun, sumLast>>
moreVars == <<walk, execRun, gLines, gOut>>
restVars == <<sentVars, sumVars, moreVars>>
vars == <<baseVars, restVars>>

----------------------------------------------------------------------------
(* Bounds of the chunker specification. *)

\* longest text, in characters
MaxTextLen == 7
\* largest max_chunk_size handed to a chunker
MaxSize == 3

Chars == {"a", ".", " "}

RECURSIVE TextsOfLen(_)
TextsOfLen(n) ==
    IF n = 0 THEN {<<>>}
    ELSE {Append(t, c) : t \in TextsOfLen(n - 1), c \in Chars}

Texts == UNION {TextsOfLen(n) : n \in 0..MaxTextLen}

Min(a, b) == IF a < b THEN a ELSE b

----------------------------------------------------------------------------
(* Python string and list primitives. *)

\* s[i:j] for 0 <= i, on a sequence (0-based, end exclusive, clipped)
Slice(s, i, j) == SubSeq(s, i + 1, Min(j, Len(s)))

\* s[-k:] for k >= 0: the last k elements, and the WHOLE list when k = 0
\* (s[-0:] is s[0:])
NegSlice(s, k) ==
    IF k = 0 THEN s
    ELSE IF k >= Len(s) THEN s
    ELSE SubSeq(s, Len(s) - k + 1, Len(s))

\* length of the run of non-blank characters s starts with
RunLen(s) ==
    IF \A i \in 1..Len(s) : s[i] # " " THEN Len(s)
    ELSE (CHOOSE n \in 1..Len(s) : s[n] = " " /\ \A i \in 1..(n - 1) : s[i] # " ") - 1

\* str.split(): the maximal runs of non-whitespace characters
RECURSIVE split(_)
split(s) ==
    IF s = <<>> THEN <<>>
    ELSE IF Head(s) = " " THEN split(Tail(s))
    ELSE LET n == RunLen(s)
         IN  <<SubSeq(s, 1, n)>> \o split(SubSeq(s, n + 1, Len(s)))

\* str.split(sep): cut at every occurrence of sep, left to right; empty
\* pieces are kept, and a text without sep is one piece (also the empty text)
RECURSIVE split_sep(_, _)
split_sep(s, sep) ==
    LET hits == {p \in 1..(Len(s) - Len(sep) + 1) :
                    SubSeq(s, p, p + Len(sep) - 1) = sep}
    IN  IF hits = {} THEN <<s>>
        ELSE LET p == CHOOSE q \in hits : \A r \in hits : q <= r
             IN  <<SubSeq(s, 1, p - 1)>>
                 \o split_sep(SubSeq(s, p + Len(sep), Len(s)), sep)

\* sep.join(parts)
RECURSIVE join(_, _)
join(sep, parts) ==
    IF parts = <<>> THEN <<>>
    ELSE IF Len(parts) = 1 THEN parts[1]
    ELSE parts[1] \o sep \o join(sep, Tail(parts))

\* sum(len(w) + extra for w in parts)
RECURSIVE SumLen(_, _)
SumLen(parts, extra) ==
    IF parts = <<>> THEN 0
    ELSE Len(Head(parts)) + extra + SumLen(Tail(parts), extra)

----------------------------------------------------------------------------
(* PostgresRAGService.chunk_text *)

\* The loop `for i in range(0, n, step)` with its `break`: the (start, end)
\* word offsets of the windows words[i:i + size], in order.  range() with a
\* negative step and start 0 is empty; step 0 is handled by the caller.
RECURSIVE ChunkSpans(_, _, _, _)
ChunkSpans(i, n, size, step) ==
    IF (step > 0 /\ i < n) \/ (step < 0 /\ i > n)
    THEN <<[lo |-> i, hi |-> Min(i + size, n)]>>
         \o (IF i + size >= n THEN <<>> ELSE ChunkSpans(i + step, n, size, step))
    ELSE <<>>

\* chunk_text on a word list: the windows, or the ValueError of range(0, n, 0)
WordChunks(words, size, overlap) ==
    IF size - overlap = 0
    THEN [err |-> TRUE, chunks |-> <<>>]
    ELSE LET spans == ChunkSpans(0, Len(words), size, size - overlap)
         IN  [err |-> FALSE,
              chunks |-> [k \in 1..Len(spans) |->
                            join(<<" ">>, Slice(words, spans[k].lo, spans[k].hi))]]

\* seeded fault: the window is one word too long (words[i:i + size + 1])
chunk_text_long(text, max_chunk_size, overlap) ==
    IF text = <<>> THEN [err |-> FALSE, chunks |-> <<>>]
    ELSE LET words == split(text)
             spans == ChunkSpans(0, Len(words), max_chunk_size,
                                 max_chunk_size - overlap)
         IN  [err |-> max_chunk_size = overlap,
              chunks |-> IF max_chunk_size = overlap THEN <<>>
                         ELSE [k \in 1..Len(spans) |->
                                join(<<" ">>, Slice(words, spans[k].lo, spans[k].hi + 1))]]

\* seeded fault: the stride ignores the overlap (range(0, len(words), size))
chunk_text_stride(text, max_chunk_size, overlap) ==
    IF text = <<>> THEN [err |-> FALSE, chunks |-> <<>>]
    ELSE LET words == split(text)
             spans == ChunkSpans(0, Len(words), max_chunk_size, max_chunk_size)
         IN  [err |-> max_chunk_size = overlap,
              chunks |-> IF max_chunk_size = overlap THEN <<>>
                         ELSE [k \in 1..Len(spans) |->
                                join(<<" ">>, Slice(words, spans[k].lo, spans[k].hi))]]

chunk_text(text, max_chunk_size, overlap) ==
    IF text = <<>> THEN [err |-> FALSE, chunks |-> <<>>]
    ELSE WordChunks(split(text), max_chunk_size, overlap)

----------------------------------------------------------------------------
(* EarningsSummarizer.chunk_transcript and NewsSummarizer.chunk_content:   *)
(* the same greedy loop under a character budget, over words joined by     *)
(* " " (cost len + 1, overlap min(100, n // 4)) and over sentences joined  *)
(* by ". " (cost len + 2, overlap min(2, n // 4)).                         *)

\* the overlap cap of chunk_transcript
WordOverlapCap == 100
\* the overlap cap of chunk_content
SentenceOverlapCap == 2
\* both keep len(current_chunk) // OverlapDivisor items
OverlapDivisor == 4

\* One pass of the `for` loop from item k on; st = [chunks, cur, len] holds
\* the finished chunks (as item lists), current_chunk and current_length.
RECURSIVE BudgetLoop(_, _, _, _, _, _)
BudgetLoop(items, k, st, max_chunk_size, extra, cap) ==
    IF k > Len(items) THEN st
    ELSE LET item == items[k]
             item_length == Len(item) + extra
             flush == st.len + item_length > max_chunk_size /\ st.cur # <<>>
             overlap_size == Min(cap, Len(st.cur) \div OverlapDivisor)
             kept == NegSlice(st.cur, overlap_size)
             cur1 == IF flush THEN kept ELSE st.cur
             len1 == IF flush THEN SumLen(kept, extra) ELSE st.len
             chunks1 == IF flush THEN Append(st.chunks, st.cur) ELSE st.chunks
         IN  BudgetLoop(items, k + 1,
                        [chunks |-> chunks1,
                         cur |-> Append(cur1, item),
                         len |-> len1 + item_length],
                        max_chunk_size, extra, cap)

\* the chunks as item lists, the trailing `if current_chunk:` included
BudgetChunks(items, max_chunk_size, extra, cap) ==
    LET st == BudgetLoop(items, 1, [chunks |-> <<>>, cur |-> <<>>, len |-> 0],
                         max_chunk_size, extra, cap)
    IN  IF st.cur # <<>> THEN Append(st.chunks, st.cur) ELSE st.chunks

chunk_transcript(transcript, max_chunk_size) ==
    LET parts == BudgetChunks(split(transcript), max_chunk_size, 1, WordOverlapCap)
    IN  [err |-> FALSE,
         chunks |-> [k \in 1..Len(parts) |-> join(<<" ">>, parts[k])]]

chunk_content(content, max_chunk_size) ==
    LET parts == BudgetChunks(split_sep(content, <<".", " ">>), max_chunk_size, 2,
                              SentenceOverlapCap)
    IN  [err |-> FALSE,
         chunks |-> [k \in 1..Len(parts) |-> join(<<".", " ">>, parts[k]) \o <<".">>]]

----------------------------------------------------------------------------
(* The chunkers applied to a bounded text. *)

NoArgs == [size |-> 0, overlap |-> 0]
NoOut == [err |-> FALSE, chunks |-> <<>>]

ChunkInit ==
    /\ cText \in Texts
    /\ cOp = "none"
    /\ cArgs = NoArgs
    /\ cOut = NoOut

\* the chunkers at rest, for the specifications that do not call them
ChunkIdle ==
    /\ cText = <<>>
    /\ cOp = "none"
    /\ cArgs = NoArgs
    /\ cOut = NoOut

\* chunk_text(text, max_chunk_size, overlap): sizes from 1, overlaps from 0
\* up to past the size
CallChunkText ==
    /\ cOp = "none"
    /\ \E size \in 1..MaxSize, overlap \in 0..(MaxSize + 1) :
         /\ cArgs' = [size |-> size, overlap |-> overlap]
         /\ cOut' = chunk_text(cText, size, overlap)
    /\ cOp' = "chunk_text"
    /\ UNCHANGED <<cText, searchVars, storeVars, restVars>>

CallChunkTranscript ==
    /\ cOp = "none"
    /\ \E size \in 1..MaxSize :
         /\ cArgs' = [size |-> size, overlap |-> 0]
         /\ cOut' = chunk_transcript(cText, size)
    /\ cOp' = "chunk_transcript"
    /\ UNCHANGED <<cText, searchVars, storeVars, restVars>>

CallChunkContent ==
    /\ cOp = "none"
    /\ \E size \in 1..MaxSize :
         /\ cArgs' = [size |-> size, overlap |-> 0]
         /\ cOut' = chunk_content(cText, size)
    /\ cOp' = "chunk_content"
    /\ UNCHANGED <<cText, searchVars, storeVars, restVars>>

ChunkNext == CallChunkText \/ CallChunkTranscript \/ CallChunkContent

----------------------------------------------------------------------------
(* PostgresRAGService.semantic_search.  The query's similarity to a row    *)
(* (1 - cosine distance) is an integer level; rows of document_chunks are  *)
(* joined with their earnings call, rows of news_chunks with their article.*)

\* rows per chunk table
MaxRows == 2

SimLevels == {0, 1, 2}
Companies == <<"AAA", "BBB">>
ChunkTypes == <<"transcript", "summary_executive">>

DocRowIds == 1..MaxRows
NewsRowIds == 1..MaxRows

\* chunk_type and company_symbol of the document_chunks row i (joined)
DocType(i) == ChunkTypes[((i + 1) % 2) + 1]
DocCompany(i) == Companies[(((i + 1) \div 2 + 1) % 2) + 1]
\* symbol of the article of the news_chunks row i
NewsCompany(i) == Companies[((i + 1) % 2) + 1]

NoSearch == [called |-> FALSE, search_type |-> "all", company_symbol |-> "",
             limit |-> 0, similarity_threshold |-> 0, env |-> "ok"]

\* chunk_type LIKE 'summary_%': "summary", any one character, anything
IsSummaryType(t) == Len(t) >= 8 /\ SubSeq(t, 1, 7) = "summary"

\* seeded fault: the threshold filter is missing from the document query
DocFilterNoThreshold(i, a) ==
    /\ (a.company_symbol # "") => (DocCompany(i) = a.company_symbol)
    /\ (a.search_type = "transcript") => (DocType(i) = "transcript")
    /\ (a.search_type = "summary") => IsSummaryType(DocType(i))

\* the WHERE clause of the document_chunks query
DocFilter(i, a) ==
    /\ (a.company_symbol # "") => (DocCompany(i) = a.company_symbol)
    /\ (a.search_type = "transcript") => (DocType(i) = "transcript")
    /\ (a.search_type = "summary") => IsSummaryType(DocType(i))
    /\ sDocSim[i] >= a.similarity_threshold

\* the WHERE clause of the news_chunks query
NewsFilter(i, a) ==
    /\ (a.company_symbol # "") => (NewsCompany(i) = a.company_symbol)
    /\ sNewsSim[i] >= a.similarity_threshold

\* seeded fault: ORDER BY similarity without DESC
OrderByLimitAscending(ids, sim, n) ==
    LET k == Min(n, Cardinality(ids))
    IN  {q \in [1..k -> ids] :
            /\ \A i, j \in 1..k : (i < j) => (q[i] # q[j] /\ sim[q[i]] <= sim[q[j]])
            /\ \A r \in ids : (\A i \in 1..k : q[i] # r)
                                => (\A i \in 1..k : sim[q[i]] <= sim[r])}

\* ORDER BY similarity DESC LIMIT n over the rows `ids` with similarity
\* sim: every answer the database may give (ties in any order)
OrderByLimit(ids, sim, n) ==
    LET k == Min(n, Cardinality(ids))
    IN  {q \in [1..k -> ids] :
            /\ \A i, j \in 1..k : (i < j) => (q[i] # q[j] /\ sim[q[i]] >= sim[q[j]])
            /\ \A r \in ids : (\A i \in 1..k : q[i] # r)
                                => (\A i \in 1..k : sim[q[i]] >= sim[r])}

DocResult(i) ==
    [source |-> "earnings_call", type |-> DocType(i),
     company_symbol |-> DocCompany(i), similarity |-> sDocSim[i], row |-> i]

NewsResult(i) ==
    [source |-> "financial_news", type |-> "news",
     company_symbol |-> NewsCompany(i), similarity |-> sNewsSim[i], row |-> i]

\* list.sort(key=similarity, reverse=True): stable, equal keys keep their order
RECURSIVE SortDesc(_)
SortDesc(rs) ==
    IF rs = <<>> THEN <<>>
    ELSE LET rest == SortDesc(SubSeq(rs, 1, Len(rs) - 1))
             x == rs[Len(rs)]
             \* x goes after every element with a key >= its own
             p == Cardinality({i \in 1..Len(rest) : rest[i].similarity >= x.similarity})
         IN  SubSeq(rest, 1, p) \o <<x>> \o SubSeq(rest, p + 1, Len(rest))

\* seeded fault: the merged list is not sorted (results.sort dropped)
MergeUnsorted(doc_results, news_results, limit) ==
    Slice(doc_results \o news_results, 0, limit)

\* lines 290-292: sort the concatenation and keep the first `limit`
Merge(doc_results, news_results, limit) ==
    Slice(SortDesc(doc_results \o news_results), 0, limit)

SearchTypes == {"all", "transcript", "summary", "news"}

SearchInit ==
    /\ sDocSim \in [DocRowIds -> SimLevels]
    /\ sNewsSim \in [NewsRowIds -> SimLevels]
    /\ sArgs = NoSearch
    /\ sOut = <<>>

SearchIdle ==
    /\ sDocSim = [i \in DocRowIds |-> 0]
    /\ sNewsSim = [i \in NewsRowIds |-> 0]
    /\ sArgs = NoSearch
    /\ sOut = <<>>

\* semantic_search(query, company_symbol, search_type, limit,
\* similarity_threshold); without an embedder it returns [] at once; env is
\* what the call meets then: a working database, or an exception inside
\* the try block
semantic_search ==
    /\ ~sArgs.called
    /\ \E st \in SearchTypes, co \in {"", Companies[1]}, lim \in 0..(MaxRows + 1),
          th \in SimLevels, env \in {"ok", "error"} :
         LET a == [called |-> TRUE, search_type |-> st, company_symbol |-> co,
                   limit |-> lim, similarity_threshold |-> th, env |-> env]
             docIds == IF st \in {"all", "transcript", "summary"}
                       THEN {i \in DocRowIds : DocFilter(i, a)} ELSE {}
             newsIds == IF st \in {"all", "news"}
                        THEN {i \in NewsRowIds : NewsFilter(i, a)} ELSE {}
         IN  /\ sArgs' = a
             /\ IF ~embedder \/ env # "ok" THEN sOut' = <<>>
                ELSE \E dq \in OrderByLimit(docIds, sDocSim, lim),
                        nq \in OrderByLimit(newsIds, sNewsSim, lim) :
                       sOut' = Merge([k \in 1..Len(dq) |-> DocResult(dq[k])],
                                     [k \in 1..Len(nq) |-> NewsResult(nq[k])], lim)
    /\ UNCHANGED <<sDocSim, sNewsSim, chunkVars, storeVars, restVars>>

SearchNext == semantic_search

----------------------------------------------------------------------------
(* The chunk store: earnings calls with their summaries, news articles and *)
(* the committed rows of document_chunks and news_chunks, written by       *)
(* add_earnings_embeddings and add_news_embeddings, alone or driven by a   *)
(* backfill run.  One process, one call at a time.  A state is what other  *)
(* sessions can read: every step of a call ends at a commit (or at its     *)
(* return), so an exception, which rolls back the uncommitted rows, leaves *)
(* the state of the last commit.  A text column is NULL, the empty string  *)
(* or a text of `words` words; a chunk row carries the word offsets        *)
(* [lo, hi) of its chunk in place of the chunk's text.                     *)

\* earnings calls in the database
NumCalls == 2
\* news articles in the database
NumNews == 2

EarningsIds == 1..NumCalls
NewsIds == 1..NumNews
\* an id that no row has
MissingId == 0

\* chunk_text's defaults, the sizes its callers pass, the commit batch
DefaultChunkSize == 1000
DefaultOverlap == 100
SummaryChunkSize == 500
NewsChunkSize == 800
BatchSize == 10

NULL == [kind |-> "null", words |-> 0]
EMPTY == [kind |-> "empty", words |-> 0]
Text(n) == [kind |-> "text", words |-> n]
\* `if text:`
Truthy(t) == t.kind = "text"

\* chunk_text(text, size, overlap) on a stored text: the chunks' word offsets
StoredChunks(t, max_chunk_size, overlap) ==
    IF ~Truthy(t) THEN <<>>
    ELSE ChunkSpans(0, t.words, max_chunk_size, max_chunk_size - overlap)

\* The Summary records manage.py loads with every earnings call, and a set
\* the summarizer saves for a call with a transcript (free LLM text).
ManageSummaries ==
    << [summary_type |-> "executive", content |-> Text(28)],
       [summary_type |-> "forward_guidance", content |-> Text(17)],
       [summary_type |-> "outlook_sentiment", content |-> Text(1)] >>

SavedSummaries ==
    << [summary_type |-> "executive", content |-> Text(520)],
       [summary_type |-> "forward_guidance", content |-> Text(120)],
       [summary_type |-> "outlook_sentiment", content |-> Text(1)] >>

\* What a loaded earnings call looks like: a long transcript (11 chunks,
\* two batches) already summarized, loaded by setup_ticker.py (which leaves
\* processing_status to its default); an empty transcript and a missing
\* one as manage.py stores them, with its summaries; a short transcript,
\* not summarized, as load_data.py stores it.
CallProfiles ==
    << [raw_transcript |-> Text(9101), summaries |-> SavedSummaries,
        processing_status |-> "pending"],
       [raw_transcript |-> EMPTY, summaries |-> ManageSummaries,
        processing_status |-> "processed"],
       [raw_transcript |-> Text(1500), summaries |-> <<>>,
        processing_status |-> "loaded"],
       [raw_transcript |-> NULL, summaries |-> ManageSummaries,
        processing_status |-> "processed"] >>

\* content of a news article: two chunks, empty, blank, missing
NewsProfiles == << Text(900), EMPTY, Text(0), NULL >>

ProfileOf(profiles, i, shift) == profiles[((i - 1 + shift) % Len(profiles)) + 1]

NoCall == [op |-> "none", id |-> 0, chunk_transcripts |-> TRUE,
           chunk_summaries |-> TRUE, phase |-> "none", i |-> 0, k |-> 0,
           chunks_added |-> 0, prev |-> -1, encoded |-> FALSE, deleted |-> FALSE]
NoRun == [kind |-> "none", list |-> <<>>, pos |-> 0, processed |-> 0,
          skip_existing |-> FALSE, seen |-> {}, encoded |-> {}, counted |-> {},
          ahead |-> {}, failed |-> FALSE]
NoLast == [op |-> "none", id |-> 0, args |-> <<>>, ret |-> 0, created |-> 0,
           clean |-> FALSE, prev |-> -1, deleted |-> FALSE]

StoreInit ==
    /\ embedder \in BOOLEAN
    /\ \E shift \in 0..(Len(CallProfiles) - 1) :
         /\ calls = [c \in EarningsIds |->
                       ProfileOf(CallProfiles, c, shift).raw_transcript]
         /\ summaries = [c \in EarningsIds |->
                           ProfileOf(CallProfiles, c, shift).summaries]
         /\ news = [a \in NewsIds |-> ProfileOf(NewsProfiles, a, shift)]
         /\ status = [c \in EarningsIds |->
                        ProfileOf(CallProfiles, c, shift).processing_status]
         /\ newsStatus = [a \in NewsIds |-> "pending"]
    /\ docChunks = {}
    /\ newsChunks = {}
    /\ call = NoCall
    /\ run = NoRun
    /\ last = NoLast

\* the store at rest, for the specifications that do not use it
StoreIdle ==
    /\ calls = [c \in EarningsIds |-> NULL]
    /\ summaries = [c \in EarningsIds |-> <<>>]
    /\ news = [a \in NewsIds |-> NULL]
    /\ status = [c \in EarningsIds |-> "pending"]
    /\ newsStatus = [a \in NewsIds |-> "pending"]
    /\ docChunks = {}
    /\ newsChunks = {}
    /\ call = NoCall
    /\ run = NoRun
    /\ last = NoLast

\* the chunk table an operation writes
TableOf(op) ==
    IF op \in {"add_news_embeddings", "backfill_news_embeddings"}
    THEN newsChunks ELSE docChunks

IsAdd(op) == op \in {"add_earnings_embeddings", "add_news_embeddings"}

\* rows of one document
RowsOf(rows, id) == {r \in rows : r.doc = id}

\* Bookkeeping of a replacement of the rows of document id: gen = 1 marks
\* the rows the replacement writes, gen = 0 rows that were there when it
\* began and are still there.
Aged(rows, id) == {IF r.doc = id THEN [r EXCEPT !.gen = 0] ELSE r : r \in rows}

\* what the last call returned, if it was the same call with the same
\* arguments and completed without an exception; -1 otherwise
PrevRet(op, id, args) ==
    IF last.op = op /\ last.id = id /\ last.args = args /\ last.clean
    THEN last.ret ELSE -1

\* The call returns ret, having committed `created` rows, and having
\* deleted rows the document had before it or not.  Inside a backfill
\* run r the loop body goes on: processed += 1 when chunks_added > 0, then
\* the next document; failed tells that a call of the run met an exception.
Returns(r, op, id, args, ret, created, clean, prev, enc, deleted) ==
    /\ last' = [op |-> op, id |-> id, args |-> args, ret |-> ret,
                created |-> created, clean |-> clean, prev |-> prev,
                deleted |-> deleted]
    /\ run' = IF r.kind = "none" THEN r
              ELSE [r EXCEPT !.pos = @ + 1,
                             !.processed = IF ret > 0 THEN @ + 1 ELSE @,
                             !.counted = IF ret > 0 THEN @ \cup {id} ELSE @,
                             !.encoded = IF enc THEN @ \cup {id} ELSE @,
                             !.failed = @ \/ ~clean]

----------------------------------------------------------------------------
(* PostgresRAGService.add_earnings_embeddings *)

\* seeded fault: the old rows are not deleted
KeepEarningsChunks(rows, id) == Aged(rows, id)

\* seeded fault: the delete has no filter on the earnings call
DeleteEveryChunk(rows, id) == {}

\* lines 68-70: delete the call's rows, commit
DeleteEarningsChunks(rows, id) == {r \in rows : r.doc # id}

\* seeded fault: chunk_index restarts in every batch (chunk_index=j)
BatchRowsLocalIndex(id, spans, i) ==
    {[doc |-> id, type |-> "transcript", index |-> j,
      lo |-> spans[i + j + 1].lo, hi |-> spans[i + j + 1].hi, gen |-> 1, sid |-> 0] :
        j \in 0..(Min(i + BatchSize, Len(spans)) - i - 1)}

\* lines 80-94: the rows of the batch transcript_chunks[i:i + batch_size]
BatchRows(id, spans, i) ==
    {[doc |-> id, type |-> "transcript", index |-> i + j,
      lo |-> spans[i + j + 1].lo, hi |-> spans[i + j + 1].hi, gen |-> 1, sid |-> 0] :
        j \in 0..(Min(i + BatchSize, Len(spans)) - i - 1)}

\* seeded fault: one index runs on over the summaries of the call
SummaryRowsRunningIndex(id, k, summary) ==
    LET spans == StoredChunks(summary.content, SummaryChunkSize, DefaultOverlap)
    IN  {[doc |-> id, type |-> "summary_" \o summary.summary_type, index |-> j + k,
          lo |-> spans[j + 1].lo, hi |-> spans[j + 1].hi, gen |-> 1, sid |-> k] :
            j \in 0..(Len(spans) - 1)}

\* lines 107-120: the rows of the k-th Summary record of the call
SummaryRows(id, k, summary) ==
    LET spans == StoredChunks(summary.content, SummaryChunkSize, DefaultOverlap)
    IN  {[doc |-> id, type |-> "summary_" \o summary.summary_type, index |-> j,
          lo |-> spans[j + 1].lo, hi |-> spans[j + 1].hi, gen |-> 1, sid |-> k] :
            j \in 0..(Len(spans) - 1)}

\* Lines 50-70, from the entry to the commit of the delete: no embedder or
\* no such call returns 0; an exception in the query or the delete rolls
\* back and returns 0; otherwise the call's rows are gone and the
\* transcript comes next.
add_earnings_embeddings(r, id, chunk_transcripts, chunk_summaries) ==
    LET op == "add_earnings_embeddings"
        args == <<chunk_transcripts, chunk_summaries>>
    IN
    IF ~embedder THEN
        /\ docChunks' = docChunks
        /\ call' = NoCall
        /\ Returns(r, op, id, args, 0, 0, FALSE, -1, FALSE, FALSE)
    ELSE IF id \notin DOMAIN calls THEN
        /\ docChunks' = docChunks
        /\ call' = NoCall
        /\ Returns(r, op, id, args, 0, 0, TRUE, PrevRet(op, id, args), FALSE, FALSE)
    ELSE
        \/ /\ docChunks' = docChunks
           /\ call' = NoCall
           /\ Returns(r, op, id, args, 0, 0, FALSE, -1, FALSE, FALSE)
        \/ /\ docChunks' = DeleteEarningsChunks(docChunks, id)
           /\ call' = [op |-> op, id |-> id,
                       chunk_transcripts |-> chunk_transcripts,
                       chunk_summaries |-> chunk_summaries,
                       phase |-> "transcript", i |-> 0, k |-> 1,
                       chunks_added |-> 0,
                       prev |-> PrevRet(op, id, args),
                       encoded |-> FALSE,
                       deleted |-> RowsOf(docChunks, id) # {}]
           /\ run' = r
           /\ last' = NoLast   \* the previous outcome is kept in call.prev

\* lines 79-98: encode one batch of transcript chunks, add its rows, commit
EmbedTranscriptBatch ==
    /\ call.op = "add_earnings_embeddings" /\ call.phase = "transcript"
    /\ call.chunk_transcripts /\ Truthy(calls[call.id])
    /\ LET spans == StoredChunks(calls[call.id], DefaultChunkSize, DefaultOverlap)
       IN  /\ call.i < Len(spans)
           /\ docChunks' = docChunks \cup BatchRows(call.id, spans, call.i)
           /\ call' = [call EXCEPT
                         !.i = @ + BatchSize,
                         !.chunks_added = @ + (Min(call.i + BatchSize, Len(spans)) - call.i),
                         !.encoded = TRUE]
    /\ UNCHANGED <<dataVars, newsChunks, run, last, chunkVars, searchVars, restVars>>

\* line 73 false, or the batch loop is over: on to line 101
TranscriptDone ==
    /\ call.op = "add_earnings_embeddings" /\ call.phase = "transcript"
    /\ \/ ~(call.chunk_transcripts /\ Truthy(calls[call.id]))
       \/ call.i >= Len(StoredChunks(calls[call.id], DefaultChunkSize, DefaultOverlap))
    /\ call' = [call EXCEPT !.phase = "summaries"]
    /\ UNCHANGED <<dataVars, docChunks, newsChunks, run, last, chunkVars, searchVars, restVars>>

\* lines 105-123: the next Summary record; one with content is chunked,
\* encoded, its rows added and committed
EmbedSummary ==
    /\ call.op = "add_earnings_embeddings" /\ call.phase = "summaries"
    /\ call.chunk_summaries
    /\ call.k <= Len(summaries[call.id])
    /\ LET summary == summaries[call.id][call.k]
           rows == SummaryRows(call.id, call.k, summary)
       IN  IF Truthy(summary.content)
           THEN /\ docChunks' = docChunks \cup rows
                /\ call' = [call EXCEPT
                              !.k = @ + 1,
                              !.chunks_added = @ + Len(StoredChunks(summary.content,
                                                      SummaryChunkSize, DefaultOverlap)),
                              !.encoded = TRUE]
           ELSE /\ docChunks' = docChunks
                /\ call' = [call EXCEPT !.k = @ + 1]
    /\ UNCHANGED <<dataVars, newsChunks, run, last, chunkVars, searchVars, restVars>>

\* lines 125-126: return chunks_added
EarningsReturn ==
    /\ call.op = "add_earnings_embeddings" /\ call.phase = "summaries"
    /\ ~call.chunk_summaries \/ call.k > Len(summaries[call.id])
    /\ Returns(run, call.op, call.id, <<call.chunk_transcripts, call.chunk_summaries>>,
               call.chunks_added, call.chunks_added, TRUE, call.prev, call.encoded,
               call.deleted)
    /\ call' = NoCall
    /\ UNCHANGED <<dataVars, docChunks, newsChunks, chunkVars, searchVars, restVars>>

\* lines 128-131: an exception in encode, add or commit; the rows not yet
\* committed are rolled back, the call returns 0
EarningsException ==
    /\ call.op = "add_earnings_embeddings"
    /\ Returns(run, call.op, call.id, <<call.chunk_transcripts, call.chunk_summaries>>,
               0, call.chunks_added, FALSE, -1, TRUE, call.deleted)
    /\ call' = NoCall
    /\ UNCHANGED <<dataVars, docChunks, newsChunks, chunkVars, searchVars, restVars>>

\* a caller of the service calls add_earnings_embeddings(id)
CallAddEarnings ==
    /\ run.kind = "none" /\ call.op = "none"
    /\ \E id \in EarningsIds \cup {MissingId},
          chunk_transcripts \in BOOLEAN, chunk_summaries \in BOOLEAN :
         add_earnings_embeddings(run, id, chunk_transcripts, chunk_summaries)
    /\ UNCHANGED <<dataVars, newsChunks, chunkVars, searchVars, restVars>>

----------------------------------------------------------------------------
(* PostgresRAGService.add_news_embeddings: one transaction *)

\* line 154: delete the article's rows (committed with the new rows)
DeleteNewsChunks(rows, id) == {r \in rows : r.doc # id}

\* lines 157-172: the rows of the article's chunks
NewsRows(id, spans) ==
    {[doc |-> id, type |-> "news", index |-> j,
      lo |-> spans[j + 1].lo, hi |-> spans[j + 1].hi, gen |-> 1, sid |-> 0] :
        j \in 0..(Len(spans) - 1)}

\* seeded fault: the old rows are not deleted
KeepNewsChunks(rows, id) == Aged(rows, id)

\* seeded fault: the embedder test of lines 137-139 is missing
add_news_embeddings_unchecked(r, id) ==
    LET op == "add_news_embeddings"
    IN
    IF id \notin DOMAIN news \/ ~Truthy(news[id]) THEN
        /\ newsChunks' = newsChunks
        /\ Returns(r, op, id, <<>>, 0, 0, TRUE, PrevRet(op, id, <<>>), FALSE, FALSE)
    ELSE
        \/ /\ newsChunks' = newsChunks
           /\ Returns(r, op, id, <<>>, 0, 0, FALSE, -1, TRUE, FALSE)
        \/ LET spans == StoredChunks(news[id], NewsChunkSize, DefaultOverlap)
           IN  /\ newsChunks' = DeleteNewsChunks(newsChunks, id) \cup NewsRows(id, spans)
               /\ Returns(r, op, id, <<>>, Len(spans), Len(spans), TRUE,
                          PrevRet(op, id, <<>>), TRUE,
                          RowsOf(newsChunks, id) # {})

add_news_embeddings(r, id) ==
    LET op == "add_news_embeddings"
    IN
    IF ~embedder THEN
        /\ newsChunks' = newsChunks
        /\ Returns(r, op, id, <<>>, 0, 0, FALSE, -1, FALSE, FALSE)
    ELSE IF id \notin DOMAIN news \/ ~Truthy(news[id]) THEN
        /\ newsChunks' = newsChunks
        /\ Returns(r, op, id, <<>>, 0, 0, TRUE, PrevRet(op, id, <<>>), FALSE, FALSE)
    ELSE
        \* an exception anywhere in the try block: rollback, return 0
        \/ /\ newsChunks' = newsChunks
           /\ Returns(r, op, id, <<>>, 0, 0, FALSE, -1, TRUE, FALSE)
        \/ LET spans == StoredChunks(news[id], NewsChunkSize, DefaultOverlap)
           IN  /\ newsChunks' = DeleteNewsChunks(newsChunks, id) \cup NewsRows(id, spans)
               /\ Returns(r, op, id, <<>>, Len(spans), Len(spans), TRUE,
                          PrevRet(op, id, <<>>), TRUE,
                          RowsOf(newsChunks, id) # {})

\* a caller of the service calls add_news_embeddings(id)
CallAddNews ==
    /\ run.kind = "none" /\ call.op = "none"
    /\ \E id \in NewsIds \cup {MissingId} : add_news_embeddings(run, id)
    /\ UNCHANGED <<dataVars, docChunks, call, chunkVars, searchVars, restVars>>

----------------------------------------------------------------------------
(* backfill_earnings_embeddings, backfill_news_embeddings *)

\* the ids i..n that are in keep, ascending (the query's order)
RECURSIVE IdsFrom(_, _, _)
IdsFrom(i, n, keep) ==
    IF i > n THEN <<>>
    ELSE (IF i \in keep THEN <<i>> ELSE <<>>) \o IdsFrom(i + 1, n, keep)

\* `if limit: query = query.limit(limit)`; 0 stands for None
Limited(list, limit) == IF limit = 0 THEN list ELSE Slice(list, 0, limit)

\* lines 42-53: earnings calls whose raw_transcript is not NULL
SelectedCalls(limit) ==
    Limited(IdsFrom(1, NumCalls, {c \in EarningsIds : calls[c].kind # "null"}), limit)

\* lines 133-147: news whose content is neither NULL nor ''
SelectedNews(limit) ==
    Limited(IdsFrom(1, NumNews, {a \in NewsIds : news[a].kind = "text"}), limit)

\* seeded fault: the skip test is inverted (`if not skip_existing`)
SkipsInverted(skip_existing, existing_count) ==
    ~skip_existing /\ existing_count > 0

\* lines 64-72: skip_existing and existing_count > 0
Skips(skip_existing, existing_count) ==
    skip_existing /\ existing_count > 0

\* with skip_existing, the documents met with rows, and their rows then
Seen(rows, id) ==
    IF run.skip_existing /\ RowsOf(rows, id) # {}
    THEN run.seen \cup {[id |-> id, rows |-> RowsOf(rows, id)]}
    ELSE run.seen

\* the documents of the list, none reached yet, and their rows
Ahead(kind, list) ==
    {[id |-> list[k], rows |-> RowsOf(TableOf(kind), list[k])] : k \in 1..Len(list)}

\* the run comes to document id, which it met with these rows
Reaching(id, rows) ==
    [run EXCEPT !.seen = Seen(rows, id),
                !.ahead = {s \in @ : s.id # id}]

\* Lines 30-59 / 121-153: no embedder returns 0; an exception in the query
\* returns 0; no document returns 0; otherwise the loop starts.
StartRun(kind, list, skip_existing) ==
    IF ~embedder THEN
        /\ last' = [NoLast EXCEPT !.op = kind, !.clean = TRUE]
        /\ run' = NoRun
    ELSE
        \/ /\ last' = [NoLast EXCEPT !.op = kind]
           /\ run' = NoRun
        \/ IF list = <<>>
           THEN /\ last' = [NoLast EXCEPT !.op = kind, !.clean = TRUE]
                /\ run' = NoRun
           ELSE /\ run' = [NoRun EXCEPT !.kind = kind, !.list = list, !.pos = 1,
                                        !.skip_existing = skip_existing,
                                        !.ahead = Ahead(kind, list)]
                /\ UNCHANGED last

\* backfill_earnings_embeddings(limit, skip_existing), skip_existing
\* taken from a set of values
BackfillEarnings(skip_values) ==
    /\ run.kind = "none" /\ call.op = "none"
    /\ \E skip_existing \in skip_values, limit \in 0..NumCalls :
         StartRun("backfill_earnings_embeddings", SelectedCalls(limit), skip_existing)
    /\ UNCHANGED <<dataVars, docChunks, newsChunks, call, chunkVars, searchVars, restVars>>

backfill_earnings_embeddings == BackfillEarnings(BOOLEAN)

\* the default, skip_existing=True
BackfillEarningsSkipping == BackfillEarnings({TRUE})

backfill_news_embeddings ==
    /\ run.kind = "none" /\ call.op = "none"
    /\ \E skip_existing \in BOOLEAN, limit \in 0..NumNews :
         StartRun("backfill_news_embeddings", SelectedNews(limit), skip_existing)
    /\ UNCHANGED <<dataVars, docChunks, newsChunks, call, chunkVars, searchVars, restVars>>

\* Lines 61-77 for the next earnings call: skipped when it has rows, else
\* add_earnings_embeddings is entered.
VisitCall ==
    /\ run.kind = "backfill_earnings_embeddings" /\ call.op = "none"
    /\ run.pos <= Len(run.list)
    /\ LET id == run.list[run.pos]
           r == Reaching(id, docChunks)
       IN  IF Skips(run.skip_existing, Cardinality(RowsOf(docChunks, id)))
           THEN /\ run' = [r EXCEPT !.pos = @ + 1]
                /\ UNCHANGED <<docChunks, call, last>>
           ELSE add_earnings_embeddings(r, id, TRUE, TRUE)
    /\ UNCHANGED <<dataVars, newsChunks, chunkVars, searchVars, restVars>>

\* Lines 155-178 for the next article: skipped when it has rows, else
\* add_news_embeddings runs.
VisitNews ==
    /\ run.kind = "backfill_news_embeddings" /\ call.op = "none"
    /\ run.pos <= Len(run.list)
    /\ LET id == run.list[run.pos]
           r == Reaching(id, newsChunks)
       IN  IF Skips(run.skip_existing, Cardinality(RowsOf(newsChunks, id)))
           THEN /\ run' = [r EXCEPT !.pos = @ + 1]
                /\ UNCHANGED <<newsChunks, last>>
           ELSE add_news_embeddings(r, id)
    /\ UNCHANGED <<dataVars, docChunks, call, chunkVars, searchVars, restVars>>

\* lines 91-93 / 185-187: the count query raises; logged, next document
VisitException ==
    /\ run.kind # "none" /\ call.op = "none"
    /\ run.pos <= Len(run.list)
    /\ run' = [Reaching(run.list[run.pos], TableOf(run.kind)) EXCEPT
                 !.pos = @ + 1, !.failed = TRUE]
    /\ UNCHANGED <<dataVars, docChunks, newsChunks, call, last, chunkVars, searchVars, restVars>>

\* lines 95-96 / 189-190: return processed
FinishRun ==
    /\ run.kind # "none" /\ call.op = "none"
    /\ run.pos > Len(run.list)
    /\ last' = [NoLast EXCEPT !.op = run.kind, !.ret = run.processed, !.clean = TRUE]
    /\ run' = NoRun
    /\ UNCHANGED <<dataVars, docChunks, newsChunks, call, chunkVars, searchVars, restVars>>

\* The process is interrupted (KeyboardInterrupt, kill) inside a call or
\* between the documents of a run: nothing more is committed.
Interrupt ==
    /\ call.op # "none" \/ run.kind # "none"
    /\ last' = [NoLast EXCEPT !.op = "interrupted", !.id = call.id]
    /\ call' = NoCall
    /\ run' = NoRun
    /\ UNCHANGED <<dataVars, docChunks, newsChunks, chunkVars, searchVars, restVars>>

\* the rows a complete add_earnings_embeddings(id) leaves: every batch of
\* the transcript and the chunks of every summary
CompleteEarningsRows(id) ==
    LET spans == StoredChunks(calls[id], DefaultChunkSize, DefaultOverlap)
    IN  UNION {BatchRows(id, spans, i) :
                 i \in {b \in 0..(Len(spans) - 1) : b % BatchSize = 0}}
        \cup UNION {SummaryRows(id, k, summaries[id][k]) :
                      k \in 1..Len(summaries[id])}

\* the rows a complete add_news_embeddings(id) leaves
CompleteNewsRows(id) ==
    NewsRows(id, StoredChunks(news[id], NewsChunkSize, DefaultOverlap))

StoreNext ==
    \/ CallAddEarnings
    \/ EmbedTranscriptBatch
    \/ TranscriptDone
    \/ EmbedSummary
    \/ EarningsReturn
    \/ EarningsException
    \/ CallAddNews
    \/ backfill_earnings_embeddings
    \/ backfill_news_embeddings
    \/ VisitCall
    \/ VisitNews
    \/ VisitException
    \/ FinishRun
    \/ Interrupt

\* backfill_earnings_embeddings run again and again with skip_existing=True,
\* and nothing else writing chunk rows
ConvergeNext ==
    \/ BackfillEarningsSkipping
    \/ VisitCall
    \/ EmbedTranscriptBatch
    \/ TranscriptDone
    \/ EmbedSummary
    \/ EarningsReturn
    \/ EarningsException
    \/ VisitException
    \/ FinishRun
    \/ Interrupt

----------------------------------------------------------------------------
(* EarningsSummarizer.determine_outlook_sentiment: the LLM's one-word      *)
(* answer, validated, with the keyword count of the transcript as the      *)
(* fallback.  The LLM response is a str; the transcript is given by how    *)
(* many times each word form occurs in it.                                 *)

\* occurrences of the most repeated word form of a transcript
MaxRepeat == 5

LowerCase == "abcdefghijklmnopqrstuvwxyz"
UpperCase == "ABCDEFGHIJKLMNOPQRSTUVWXYZ"

\* a str literal as a sequence of characters
Str(s) == [i \in 1..Len(s) |-> SubSeq(s, i, i)]

IndexIn(c, alphabet) ==
    IF \E i \in 1..Len(alphabet) : SubSeq(alphabet, i, i) = c
    THEN CHOOSE i \in 1..Len(alphabet) : SubSeq(alphabet, i, i) = c
    ELSE 0

IsAlpha(c) == IndexIn(c, LowerCase) > 0 \/ IndexIn(c, UpperCase) > 0

lower_char(c) ==
    LET i == IndexIn(c, UpperCase) IN IF i > 0 THEN SubSeq(LowerCase, i, i) ELSE c

upper_char(c) ==
    LET i == IndexIn(c, LowerCase) IN IF i > 0 THEN SubSeq(UpperCase, i, i) ELSE c

\* str.lower, str.upper, str.title
lower(s) == [i \in 1..Len(s) |-> lower_char(s[i])]
upper(s) == [i \in 1..Len(s) |-> upper_char(s[i])]
title(s) ==
    [i \in 1..Len(s) |->
        IF i = 1 \/ ~IsAlpha(s[i - 1]) THEN upper_char(s[i]) ELSE lower_char(s[i])]

\* str.strip(chars)
RECURSIVE lstrip(_, _)
lstrip(s, chars) ==
    IF s # <<>> /\ s[1] \in chars THEN lstrip(Tail(s), chars) ELSE s

RECURSIVE rstrip(_, _)
rstrip(s, chars) ==
    IF s # <<>> /\ s[Len(s)] \in chars
    THEN rstrip(SubSeq(s, 1, Len(s) - 1), chars) ELSE s

strip(s, chars) == rstrip(lstrip(s, chars), chars)

\* settings.SENTIMENT_KEYWORDS
SENTIMENT_KEYWORDS ==
    [positive |-> <<"optimistic", "confident", "strong", "growth", "momentum",
                    "pleased", "excited", "bullish", "opportunity", "progress",
                    "improved", "solid", "robust", "excellent">>,
     negative |-> <<"challenging", "difficult", "headwinds", "pressure", "decline",
                    "concerned", "cautious", "weakness", "slowdown", "uncertainty",
                    "disappointing", "volatile", "risk", "struggle">>,
     neutral |-> <<"stable", "steady", "mixed", "balanced", "moderate",
                   "consistent", "maintaining", "monitoring", "watchful">>]

\* the words the prompt offers to the LLM
PromptOptions ==
    {Str("Positive"), Str("Negative"), Str("Neutral"), Str("Cautious"),
     Str("Bullish"), Str("Bearish")}

\* valid_sentiments of lines 243-244
valid_sentiments ==
    <<"Positive", "Negative", "Neutral", "Cautious", "Bullish", "Bearish",
      "Optimistic", "Pessimistic", "Mixed", "Strong", "Weak", "Confident">>

\* The word forms of the transcripts considered: five positive keywords,
\* one of them also capitalised, a negative one and two neutral ones.
RepeatedForm == "strong"
OtherForms ==
    {"Strong", "growth", "solid", "robust", "progress", "risk", "stable", "steady"}
WordForms == {RepeatedForm} \cup OtherForms

Transcripts ==
    {t \in [WordForms -> 0..MaxRepeat] : \A f \in OtherForms : t[f] <= 1}

\* What the LLM may answer: one of these words in some casing, followed by
\* punctuation or more words; nothing at all (also what OllamaClient.generate
\* returns on any error); punctuation only.
LLMWords ==
    {"Positive", "Negative", "Neutral", "Cautious", "Bullish", "Bearish",
     "Optimistic", "Great"}

Cased(w, casing) ==
    IF casing = "lower" THEN lower(Str(w))
    ELSE IF casing = "upper" THEN upper(Str(w))
    ELSE Str(w)

Responses ==
    {Cased(w, casing) \o Str(punct) \o Str(more) :
        w \in LLMWords, casing \in {"title", "lower", "upper"},
        punct \in {"", ".", "!"}, more \in {"", " outlook"}}
    \cup {Str(""), Str(" "), Str("...")}

\* the keyword lists as sets of str
Keywords ==
    [kind \in {"positive", "negative", "neutral"} |->
        {Str(SENTIMENT_KEYWORDS[kind][k]) : k \in 1..Len(SENTIMENT_KEYWORDS[kind])}]

\* line 199: what a word form is in raw_transcript.lower()
Lowered == [f \in WordForms |-> lower(Str(f))]

\* lines 202-204: the keywords of a list that occur in transcript.lower()
KeywordCount(t, kind) ==
    Cardinality({w \in Keywords[kind] :
                   \E f \in WordForms : t[f] > 0 /\ Lowered[f] = w})

\* lines 248-254
KeywordFallback(t) ==
    LET positive_count == KeywordCount(t, "positive")
        negative_count == KeywordCount(t, "negative")
        neutral_count == KeywordCount(t, "neutral")
    IN  IF positive_count > negative_count /\ positive_count > neutral_count
        THEN Str("Positive")
        ELSE IF negative_count > positive_count /\ negative_count > neutral_count
        THEN Str("Negative")
        ELSE Str("Neutral")

\* lines 237-241: result.split()[0].strip('.,!?').title(), for result # ''
first_word(result) == title(strip(split(result)[1], {".", ",", "!", "?"}))

\* lines 242-246: the LLM's word is returned
Accepted(response) ==
    LET result == strip(response, {" "})
    IN  /\ result # <<>>
        /\ \E k \in 1..Len(valid_sentiments) :
             first_word(result) = Str(valid_sentiments[k])

\* lines 236-246 for each response considered: the word returned, or ''
\* when the response is empty or its word is not valid
LLMWord ==
    [r \in Responses |->
        IF Accepted(r) THEN first_word(strip(r, {" "})) ELSE <<>>]

determine_outlook_sentiment(t, response) ==
    IF LLMWord[response] # <<>> THEN LLMWord[response]
    ELSE KeywordFallback(t)

\* valid_sentiments of news_summarizer.py line 225
news_valid_sentiments ==
    <<"Positive", "Negative", "Neutral", "Bullish", "Bearish">>

\* news_summarizer.py lines 218-227 for each response considered
NewsLLMWord ==
    [r \in Responses |->
        LET result == strip(r, {" "})
        IN  IF /\ result # <<>>
               /\ \E k \in 1..Len(news_valid_sentiments) :
                    first_word(result) = Str(news_valid_sentiments[k])
            THEN first_word(result) ELSE <<>>]

\* NewsSummarizer.determine_news_sentiment: an article without content is
\* Neutral (195-196); else the LLM's word when valid, else "Neutral" (229)
determine_news_sentiment(t, response) ==
    IF \A f \in WordForms : t[f] = 0 THEN Str("Neutral")
    ELSE IF NewsLLMWord[response] # <<>> THEN NewsLLMWord[response]
    ELSE Str("Neutral")

NoWord == [done |-> FALSE, op |-> "none", word |-> <<>>]

SentimentInit ==
    /\ oTranscript \in Transcripts
    /\ oResponse \in Responses
    /\ oOut = NoWord

SentimentIdle ==
    /\ oTranscript = [f \in WordForms |-> 0]
    /\ oResponse = <<>>
    /\ oOut = NoWord

CallDetermineOutlookSentiment ==
    /\ ~oOut.done
    /\ oOut' = [done |-> TRUE, op |-> "determine_outlook_sentiment",
                word |-> determine_outlook_sentiment(oTranscript, oResponse)]
    /\ UNCHANGED <<oTranscript, oResponse, baseVars, sumVars, moreVars>>

CallDetermineNewsSentiment ==
    /\ ~oOut.done
    /\ oOut' = [done |-> TRUE, op |-> "determine_news_sentiment",
                word |-> determine_news_sentiment(oTranscript, oResponse)]
    /\ UNCHANGED <<oTranscript, oResponse, baseVars, sumVars, moreVars>>

SentimentNext == CallDetermineOutlookSentiment \/ CallDetermineNewsSentiment

----------------------------------------------------------------------------
(* Summarization: EarningsSummarizer and NewsSummarizer save_summaries,    *)
(* process_earnings_calls and process_news_articles over the summaries and *)
(* news_summaries tables.  One summarizer process, one session; a state is *)
(* what is committed.                                                      *)

SummaryTypes == <<"executive", "forward_guidance", "outlook_sentiment">>
NewsSummaryTypes == <<"key_points", "impact_analysis", "sentiment">>

\* A summaries dict (insertion order) with the given contents.
Dict(types, contents) ==
    [k \in 1..Len(types) |-> [summary_type |-> types[k], content |-> contents[k]]]

\* seeded fault: with every LLM call failing the sentiment is '' too
GeneratedContentsNoFallback ==
    { <<Text(300), Text(200), Text(1)>>, <<EMPTY, Text(0), EMPTY>> }

\* What summarize_* returns for a document with text: every LLM call
\* answered; or the first answered '' (OllamaClient.generate on any error)
\* and the second blanks only.  The sentiment is always one word.
GeneratedContents ==
    { <<Text(300), Text(200), Text(1)>>, <<EMPTY, Text(0), Text(1)>> }

\* lines 288 / 263: `if content and content.strip()`
Saves(entry) == Truthy(entry.content) /\ entry.content.words > 0

\* seeded fault: the delete of lines 282-284 is missing
AppendSummaries(old, dict) == old \o SelectSeq(dict, Saves)

\* save_summaries, committed: the document's records are deleted and one
\* record is added for every entry with content
ReplaceSummaries(old, dict) == SelectSeq(dict, Saves)

\* seen, llm, faults and visited record what the run met and did: the
\* documents it skipped with their records, those it made LLM calls for,
\* those of them whose summaries were not saved (an exception, a rollback)
NoSumRun == [kind |-> "none", list |-> <<>>, pos |-> 0,
             seen |-> {}, llm |-> {}, faults |-> {}, visited |-> <<>>]
NoSumLast == [op |-> "none", raised |-> FALSE, list |-> <<>>, visited |-> <<>>,
              attempted |-> {}, faults |-> {}]

SummarizeInit ==
    /\ \E shift \in 0..(Len(CallProfiles) - 1) :
         /\ calls = [c \in EarningsIds |->
                       ProfileOf(CallProfiles, c, shift).raw_transcript]
         /\ summaries = [c \in EarningsIds |->
                           ProfileOf(CallProfiles, c, shift).summaries]
         /\ news = [a \in NewsIds |-> ProfileOf(NewsProfiles, a, shift)]
         /\ status = [c \in EarningsIds |->
                        ProfileOf(CallProfiles, c, shift).processing_status]
         /\ newsStatus = [a \in NewsIds |-> "pending"]
    /\ newsSummaries = [a \in NewsIds |-> <<>>]
    /\ sumRun = NoSumRun
    /\ sumLast = NoSumLast

SummarizeIdle ==
    /\ newsSummaries = [a \in NewsIds |-> <<>>]
    /\ sumRun = NoSumRun
    /\ sumLast = NoSumLast

\* EarningsSummarizer.save_summaries(earnings_call, summaries): deletes and
\* inserts committed together, or an exception and the rollback
SaveCommitted(id, dict) ==
    summaries' = [summaries EXCEPT ![id] = ReplaceSummaries(@, dict)]

SaveRolledBack == summaries' = summaries

save_summaries(id, dict) == SaveCommitted(id, dict) \/ SaveRolledBack

\* NewsSummarizer.save_summaries(news_article, summaries)
NewsSaveCommitted(id, dict) ==
    newsSummaries' = [newsSummaries EXCEPT ![id] = ReplaceSummaries(@, dict)]

NewsSaveRolledBack == newsSummaries' = newsSummaries

save_news_summaries(id, dict) == NewsSaveCommitted(id, dict) \/ NewsSaveRolledBack

\* a caller regenerates the summaries of a document (setup_ticker.py)
CallSaveSummaries ==
    /\ sumRun.kind = "none"
    /\ \E id \in EarningsIds, contents \in GeneratedContents :
         save_summaries(id, Dict(SummaryTypes, contents))
    /\ UNCHANGED <<newsSummaries, sumRun, sumLast, sentVars>>
    /\ UNCHANGED <<chunkVars, searchVars, embedder, calls, news, status, newsStatus, moreVars,
                   docChunks, newsChunks, call, run, last>>

CallSaveNewsSummaries ==
    /\ sumRun.kind = "none"
    /\ \E id \in NewsIds, contents \in GeneratedContents :
         save_news_summaries(id, Dict(NewsSummaryTypes, contents))
    /\ UNCHANGED <<summaries, sumRun, sumLast, sentVars>>
    /\ UNCHANGED <<chunkVars, searchVars, embedder, calls, news, status, newsStatus, moreVars,
                   docChunks, newsChunks, call, run, last>>

\* Lines 305-329 / 280-297: the query; an exception in it leaves the
\* function, otherwise the loop starts over the documents selected.
StartSummarize(kind, list) ==
    \/ /\ sumLast' = [NoSumLast EXCEPT !.op = kind, !.raised = TRUE]
       /\ sumRun' = NoSumRun
    \/ IF list = <<>>
       THEN /\ sumLast' = [NoSumLast EXCEPT !.op = kind]
            /\ sumRun' = NoSumRun
       ELSE /\ sumRun' = [NoSumRun EXCEPT !.kind = kind, !.list = list, !.pos = 1]
            /\ UNCHANGED sumLast

process_earnings_calls ==
    /\ sumRun.kind = "none"
    /\ \E limit \in 0..NumCalls :
         StartSummarize("process_earnings_calls",
                        Limited(IdsFrom(1, NumCalls, EarningsIds), limit))
    /\ UNCHANGED <<summaries, newsSummaries, sentVars>>
    /\ UNCHANGED <<chunkVars, searchVars, embedder, calls, news, status, newsStatus, moreVars,
                   docChunks, newsChunks, call, run, last>>

process_news_articles ==
    /\ sumRun.kind = "none"
    /\ \E limit \in 0..NumNews :
         StartSummarize("process_news_articles",
                        Limited(IdsFrom(1, NumNews, NewsIds), limit))
    /\ UNCHANGED <<summaries, newsSummaries, sentVars>>
    /\ UNCHANGED <<chunkVars, searchVars, embedder, calls, news, status, newsStatus, moreVars,
                   docChunks, newsChunks, call, run, last>>

\* seeded fault: documents with summaries are not skipped
NeverSkipsSummarized(existing_summaries) == FALSE

\* lines 336-338 / 304-306: `if existing_summaries > 0: continue`
SkipsSummarized(existing_summaries) == existing_summaries > 0

\* the run with the visit of document id recorded: the visit itself, and
\* the document's records if it has any
Visiting(id, records) ==
    [sumRun EXCEPT !.pos = @ + 1,
                   !.visited = Append(@, id),
                   !.seen = IF records # <<>>
                            THEN @ \cup {[id |-> id, records |-> records]}
                            ELSE @]

\* the count query of lines 333-335 / 300-302 raises: it is outside the
\* try block, so the exception leaves process_*
CountQueryRaises ==
    /\ sumRun.kind # "none"
    /\ sumRun.pos <= Len(sumRun.list)
    /\ sumLast' = [op |-> sumRun.kind, raised |-> TRUE, list |-> sumRun.list,
                   visited |-> Append(sumRun.visited, sumRun.list[sumRun.pos]),
                   attempted |-> sumRun.llm, faults |-> sumRun.faults]
    /\ sumRun' = NoSumRun
    /\ UNCHANGED <<summaries, newsSummaries, sentVars>>
    /\ UNCHANGED <<chunkVars, searchVars, embedder, calls, news, status, newsStatus, moreVars,
                   docChunks, newsChunks, call, run, last>>

\* Lines 331-352 for the next earnings call: skipped when it has summaries;
\* else summarized (nothing without a transcript) and the summaries saved;
\* an exception inside the try block is logged and the loop goes on.
SummarizeCall ==
    /\ sumRun.kind = "process_earnings_calls"
    /\ sumRun.pos <= Len(sumRun.list)
    /\ LET id == sumRun.list[sumRun.pos]
           r == Visiting(id, summaries[id])
       IN  IF SkipsSummarized(Len(summaries[id]))
           THEN /\ sumRun' = r
                /\ UNCHANGED summaries
           ELSE IF ~Truthy(calls[id])
           THEN /\ sumRun' = r
                /\ UNCHANGED summaries
           ELSE \/ /\ \E contents \in GeneratedContents :
                        SaveCommitted(id, Dict(SummaryTypes, contents))
                   /\ sumRun' = [r EXCEPT !.llm = @ \cup {id}]
                \* an exception in summarize_earnings_call, or the rollback
                \* of save_summaries
                \/ /\ SaveRolledBack
                   /\ sumRun' = [r EXCEPT !.llm = @ \cup {id},
                                          !.faults = @ \cup {id}]
    /\ UNCHANGED <<newsSummaries, sumLast, sentVars>>
    /\ UNCHANGED <<chunkVars, searchVars, embedder, calls, news, status, newsStatus, moreVars,
                   docChunks, newsChunks, call, run, last>>

\* lines 298-319 for the next news article
SummarizeNews ==
    /\ sumRun.kind = "process_news_articles"
    /\ sumRun.pos <= Len(sumRun.list)
    /\ LET id == sumRun.list[sumRun.pos]
           r == Visiting(id, newsSummaries[id])
       IN  IF SkipsSummarized(Len(newsSummaries[id]))
           THEN /\ sumRun' = r
                /\ UNCHANGED newsSummaries
           ELSE IF ~Truthy(news[id])
           THEN /\ sumRun' = r
                /\ UNCHANGED newsSummaries
           ELSE \/ /\ \E contents \in GeneratedContents :
                        NewsSaveCommitted(id, Dict(NewsSummaryTypes, contents))
                   /\ sumRun' = [r EXCEPT !.llm = @ \cup {id}]
                \/ /\ NewsSaveRolledBack
                   /\ sumRun' = [r EXCEPT !.llm = @ \cup {id},
                                          !.faults = @ \cup {id}]
    /\ UNCHANGED <<summaries, sumLast, sentVars>>
    /\ UNCHANGED <<chunkVars, searchVars, embedder, calls, news, status, newsStatus, moreVars,
                   docChunks, newsChunks, call, run, last>>

\* the loop is over: process_* returns
SummarizeFinish ==
    /\ sumRun.kind # "none"
    /\ sumRun.pos > Len(sumRun.list)
    /\ sumLast' = [op |-> sumRun.kind, raised |-> FALSE, list |-> sumRun.list,
                   visited |-> sumRun.visited,
                   attempted |-> sumRun.llm, faults |-> sumRun.faults]
    /\ sumRun' = NoSumRun
    /\ UNCHANGED <<summaries, newsSummaries, sentVars>>
    /\ UNCHANGED <<chunkVars, searchVars, embedder, calls, news, status, newsStatus, moreVars,
                   docChunks, newsChunks, call, run, last>>

SummarizeNext ==
    \/ CallSaveSummaries
    \/ CallSaveNewsSummaries
    \/ process_earnings_calls
    \/ process_news_articles
    \/ CountQueryRaises
    \/ SummarizeCall
    \/ SummarizeNews
    \/ SummarizeFinish

----------------------------------------------------------------------------
(* The loops of backfill_earnings_embeddings and backfill_news_embeddings    *)
(* over lists longer than the store specification holds, each document      *)
(* reduced to what the loop body does with it: skip it, hand it to          *)
(* add_*_embeddings, or meet an exception.                                  *)

\* longest list of selected documents
MaxList == 10

\* `if i % 5 == 0` and `if i % 10 == 0`
EarningsPauseEvery == 5
NewsPauseEvery == 10

PauseEvery(kind) ==
    IF kind = "backfill_news_embeddings" THEN NewsPauseEvery ELSE EarningsPauseEvery

\* i is the enumerate(..., 1) index of the document the loop is at; since
\* counts the documents handed to add_*_embeddings since the last sleep
\* (or the start), slept tells that the step just taken ended in
\* time.sleep, and gap is what since had come to then
NoWalk == [kind |-> "none", len |-> 0, i |-> 0, skip_existing |-> FALSE,
           since |-> 0, slept |-> FALSE, gap |-> 0]

WalkIdle == walk = NoWalk

\* lines 87 / 181
Pauses(kind, i) == i % PauseEvery(kind) = 0

\* lines 53-59 / 147-153: the list is queried, the loop starts
WalkStart ==
    /\ walk.kind = "none"
    /\ \E kind \in {"backfill_earnings_embeddings", "backfill_news_embeddings"},
          len \in 1..MaxList, skip_existing \in BOOLEAN :
         walk' = [NoWalk EXCEPT !.kind = kind, !.len = len, !.i = 1,
                                !.skip_existing = skip_existing]
    /\ UNCHANGED <<baseVars, sentVars, sumVars, execRun, gLines, gOut>>

\* lines 64-72 / 158-166: the document has chunk rows, `continue`
WalkSkip ==
    /\ walk.kind # "none" /\ walk.i <= walk.len
    /\ walk.skip_existing
    /\ walk' = [walk EXCEPT !.i = @ + 1, !.slept = FALSE]
    /\ UNCHANGED <<baseVars, sentVars, sumVars, execRun, gLines, gOut>>

\* lines 74-90 / 168-183: add_*_embeddings is called and returns (chunks or
\* 0), then the sleep when i is a multiple of 5, respectively 10
WalkAdd ==
    /\ walk.kind # "none" /\ walk.i <= walk.len
    /\ walk' = IF Pauses(walk.kind, walk.i)
               THEN [walk EXCEPT !.i = @ + 1, !.slept = TRUE,
                                 !.gap = walk.since + 1, !.since = 0]
               ELSE [walk EXCEPT !.i = @ + 1, !.slept = FALSE,
                                 !.since = @ + 1]
    /\ UNCHANGED <<baseVars, sentVars, sumVars, execRun, gLines, gOut>>

\* lines 92-94 / 185-187: an exception in the loop body (the count query,
\* or the rollback inside add_*_embeddings), logged, `continue`
WalkException ==
    /\ walk.kind # "none" /\ walk.i <= walk.len
    /\ walk' = [walk EXCEPT !.i = @ + 1, !.slept = FALSE]
    /\ UNCHANGED <<baseVars, sentVars, sumVars, execRun, gLines, gOut>>

\* lines 96-97 / 189-190: the loop is over
WalkFinish ==
    /\ walk.kind # "none" /\ walk.i > walk.len
    /\ walk' = NoWalk
    /\ UNCHANGED <<baseVars, sentVars, sumVars, execRun, gLines, gOut>>

WalkNext == WalkStart \/ WalkSkip \/ WalkAdd \/ WalkException \/ WalkFinish

----------------------------------------------------------------------------
(* EarningsSummarizer.generate_executive_summary, for a transcript that      *)
(* chunk_transcript(raw_transcript, 5000) splits into n chunks.  A partial   *)
(* summary is named by the chunk it summarizes.                              *)

\* most chunks of a transcript
MaxChunks == 9

\* chunks[:8]
ExecChunkCap == 8

\* calls is the list of LLM calls made so far, in order; answers tells for
\* each map call whether generate returned text
NoExec == [phase |-> "none", n |-> 0, i |-> 0, chunk_summaries |-> <<>>,
           calls |-> <<>>, answers |-> <<>>]

ExecIdle == execRun = NoExec

\* seeded fault: every chunk is processed
ChunksToProcessAll(n) == n

\* line 110: len(chunks[:8])
ChunksToProcess(n) == Min(n, ExecChunkCap)

\* lines 104-111
CallGenerateExecutiveSummary ==
    /\ execRun.phase = "none"
    /\ \E n \in 0..MaxChunks :
         execRun' = [NoExec EXCEPT !.phase = "map", !.n = n, !.i = 1]
    /\ UNCHANGED <<baseVars, sentVars, sumVars, walk, gLines, gOut>>

\* lines 113-131: the LLM call for the next chunk; its summary is kept
\* unless it is '' (what generate returns on any error)
ExecMap ==
    /\ execRun.phase = "map"
    /\ execRun.i <= ChunksToProcess(execRun.n)
    /\ \E answered \in BOOLEAN :
         execRun' = [execRun EXCEPT
                       !.i = @ + 1,
                       !.calls = Append(@, [kind |-> "map", chunk |-> execRun.i,
                                            input |-> <<>>]),
                       !.answers = Append(@, answered),
                       !.chunk_summaries = IF answered THEN Append(@, execRun.i)
                                           ELSE @]
    /\ UNCHANGED <<baseVars, sentVars, sumVars, walk, gLines, gOut>>

\* lines 133-150: the partial summaries joined by "\n\n", the final LLM
\* call, return
ExecReduce ==
    /\ execRun.phase = "map"
    /\ execRun.i > ChunksToProcess(execRun.n)
    /\ execRun' = [execRun EXCEPT
                     !.phase = "returned",
                     !.calls = Append(@, [kind |-> "reduce", chunk |-> 0,
                                          input |-> execRun.chunk_summaries])]
    /\ UNCHANGED <<baseVars, sentVars, sumVars, walk, gLines, gOut>>

ExecNext == CallGenerateExecutiveSummary \/ ExecMap \/ ExecReduce

----------------------------------------------------------------------------
(* EarningsSummarizer.extract_forward_guidance: the text handed to the LLM. *)
(* A transcript is the list of its lines, each line reduced to whether it   *)
(* holds one of settings.FORWARD_GUIDANCE_KEYWORDS; a line of the text is   *)
(* named by its number (from 1).                                            *)

\* most lines of a transcript
MaxLines == 6

\* lines[max(0, i-2):min(len(lines), i+3)]
GuidanceContext == 2
\* guidance_sections[:3000], transcript[:3000]
GuidanceCap == 3000

Max(a, b) == IF a > b THEN a ELSE b

\* lines 165-170, from line i on: the window around every matching line is
\* appended to guidance_sections
RECURSIVE guidance_sections(_, _)
guidance_sections(lines, i) ==
    IF i > Len(lines) THEN <<>>
    ELSE LET start == Max(1, i - GuidanceContext)
             end == Min(Len(lines), i + GuidanceContext)
         IN  (IF lines[i] THEN [k \in 1..(end - start + 1) |-> start + k - 1]
              ELSE <<>>)
             \o guidance_sections(lines, i + 1)

\* line 172: the first 3000 entries of guidance_sections joined by "\n",
\* or the first 3000 characters of the transcript
guidance_text(lines) ==
    LET sections == guidance_sections(lines, 1)
    IN  IF sections # <<>>
        THEN [kind |-> "lines", lines |-> Slice(sections, 0, GuidanceCap), chars |-> 0]
        ELSE [kind |-> "prefix", lines |-> <<>>, chars |-> GuidanceCap]

NoGuidance == [kind |-> "none", lines |-> <<>>, chars |-> 0]

GuidanceInit ==
    /\ gLines \in UNION {[1..n -> BOOLEAN] : n \in 1..MaxLines}
    /\ gOut = NoGuidance

GuidanceIdle ==
    /\ gLines = <<>>
    /\ gOut = NoGuidance

CallExtractForwardGuidance ==
    /\ gOut.kind = "none"
    /\ gOut' = guidance_text(gLines)
    /\ UNCHANGED <<baseVars, sentVars, sumVars, walk, execRun, gLines>>

GuidanceNext == CallExtractForwardGuidance

\* the variables of the specifications added later, at rest
MoreIdle == WalkIdle /\ ExecIdle /\ GuidanceIdle

RestIdle == SentimentIdle /\ SummarizeIdle /\ MoreIdle

----------------------------------------------------------------------------
(* The specifications. *)

InitChunk == ChunkInit /\ SearchIdle /\ StoreIdle /\ embedder = TRUE /\ RestIdle
SpecChunk == InitChunk /\ [][ChunkNext]_vars

InitSearch ==
    SearchInit /\ ChunkIdle /\ StoreIdle /\ embedder \in BOOLEAN /\ RestIdle
SpecSearch == InitSearch /\ [][SearchNext]_vars

\* A service whose embedding model failed to load (_load_embedding_model
\* sets embedder = None), over a database that an earlier process filled.
\* No call gets past its first test, so the steps inside a call are not
\* part of the next-state relation.
InitUnavailable ==
    /\ embedder = FALSE
    /\ \E shift \in 0..(Len(CallProfiles) - 1) :
         /\ calls = [c \in EarningsIds |->
                       ProfileOf(CallProfiles, c, shift).raw_transcript]
         /\ summaries = [c \in EarningsIds |->
                           ProfileOf(CallProfiles, c, shift).summaries]
         /\ news = [a \in NewsIds |-> ProfileOf(NewsProfiles, a, shift)]
         /\ status = [c \in EarningsIds |->
                        ProfileOf(CallProfiles, c, shift).processing_status]
         /\ newsStatus = [a \in NewsIds |-> "pending"]
    /\ docChunks = UNION {CompleteEarningsRows(c) : c \in EarningsIds}
    /\ newsChunks = UNION {CompleteNewsRows(a) : a \in NewsIds}
    /\ call = NoCall
    /\ run = NoRun
    /\ last = NoLast
    /\ SearchIdle
    /\ ChunkIdle
    /\ RestIdle

NextUnavailable ==
    \/ CallAddEarnings
    \/ CallAddNews
    \/ backfill_earnings_embeddings
    \/ backfill_news_embeddings
    \/ semantic_search

SpecUnavailable == InitUnavailable /\ [][NextUnavailable]_vars

InitSentiment ==
    /\ SentimentInit /\ SummarizeIdle /\ MoreIdle
    /\ ChunkIdle /\ SearchIdle /\ StoreIdle /\ embedder = TRUE

InitSummarize ==
    /\ SummarizeInit /\ SentimentIdle /\ MoreIdle
    /\ ChunkIdle /\ SearchIdle
    /\ embedder = TRUE
    /\ docChunks = {} /\ newsChunks = {}
    /\ call = NoCall /\ run = NoRun /\ last = NoLast

SpecSummarize == InitSummarize /\ [][SummarizeNext]_vars

SpecSentiment == InitSentiment /\ [][SentimentNext]_vars

\* the three specifications below leave the database alone
BaseIdle == ChunkIdle /\ SearchIdle /\ StoreIdle /\ embedder = TRUE

InitPause ==
    /\ walk = NoWalk /\ ExecIdle /\ GuidanceIdle
    /\ BaseIdle /\ SentimentIdle /\ SummarizeIdle

SpecPause == InitPause /\ [][WalkNext]_vars

InitExecutive ==
    /\ execRun = NoExec /\ WalkIdle /\ GuidanceIdle
    /\ BaseIdle /\ SentimentIdle /\ SummarizeIdle

SpecExecutive == InitExecutive /\ [][ExecNext]_vars

InitGuidance ==
    /\ GuidanceInit /\ WalkIdle /\ ExecIdle
    /\ BaseIdle /\ SentimentIdle /\ SummarizeIdle

SpecGuidance == InitGuidance /\ [][GuidanceNext]_vars

Init == StoreInit /\ ChunkIdle /\ SearchIdle /\ RestIdle

InitConverge == StoreInit /\ ChunkIdle /\ SearchIdle /\ RestIdle

SpecConverge == InitConverge /\ [][ConvergeNext]_vars
Next == StoreNext
Spec == Init /\ [][Next]_vars



----------------------------------------------------------------------------
(* Claims about the chunkers (checked under SpecChunk). *)

size == cArgs.size
overlap == cArgs.overlap

\* the word lists of the chunks chunk_text returned
ChunkWords == [k \in 1..Len(cOut.chunks) |-> split(cOut.chunks[k])]

\* the chunks' words with the first `drop` words of every chunk but the
\* first removed, concatenated in order
RECURSIVE Reassemble(_, _, _)
Reassemble(chunks, k, drop) ==
    IF k > Len(chunks) THEN <<>>
    ELSE (IF k = 1 THEN chunks[k] ELSE SubSeq(chunks[k], drop + 1, Len(chunks[k])))
         \o Reassemble(chunks, k + 1, drop)

\* C5: with 0 <= overlap < max_chunk_size, chunk_text raises nothing, every
\* chunk has at most max_chunk_size words, every chunk but the last has
\* exactly max_chunk_size words, and the last chunk is the tail of the
\* input's word list (it ends at the last word); a text with words yields
\* at least one chunk.
C5_WindowShape ==
    (cOp = "chunk_text" /\ overlap < size) =>
        LET words == split(cText)
            n == Len(ChunkWords)
        IN  /\ ~cOut.err
            /\ (words # <<>>) => (n >= 1)
            /\ \A k \in 1..n : Len(ChunkWords[k]) <= size
            /\ \A k \in 1..(n - 1) : Len(ChunkWords[k]) = size
            /\ (n >= 1) =>
                 LET m == Len(ChunkWords[n])
                 IN  /\ m >= 1
                     /\ ChunkWords[n] = SubSeq(words, Len(words) - m + 1, Len(words))

\* an overlapping split into two chunks whose last chunk is short
C5_Witness ==
    /\ cOp = "chunk_text"
    /\ 0 < overlap /\ overlap < size
    /\ Len(cOut.chunks) = 2
    /\ Len(ChunkWords[2]) < size

\* C6: with 0 <= overlap < max_chunk_size, dropping the first `overlap`
\* words of every chunk but the first and concatenating the chunks gives
\* back exactly text.split().
C6_RoundTrip ==
    (cOp = "chunk_text" /\ overlap < size) =>
        /\ ~cOut.err
        /\ Reassemble(ChunkWords, 1, overlap) = split(cText)

\* an overlapping split of a text whose words differ
C6_Witness ==
    /\ cOp = "chunk_text"
    /\ 0 < overlap /\ overlap < size
    /\ Len(cOut.chunks) >= 2
    /\ \E i, j \in 1..Len(split(cText)) : split(cText)[i] # split(cText)[j]

\* C7 as claimed: every chunker returns no chunk for the empty text.
C7_EmptyTextNoChunks ==
    (cOp # "none" /\ cText = <<>>) => (~cOut.err /\ cOut.chunks = <<>>)

\* every word of the input occurs in some returned chunk
CoversInput ==
    \A i \in 1..Len(split(cText)) :
        \E k \in 1..Len(ChunkWords) :
            \E j \in 1..Len(ChunkWords[k]) : ChunkWords[k][j] = split(cText)[i]

\* C8 as claimed: with overlap >= max_chunk_size on a non-empty text,
\* chunk_text raises, or returns what overlap = max_chunk_size - 1 returns,
\* or at least returns chunks that cover the input.
C8_ClampOrReject ==
    (cOp = "chunk_text" /\ overlap >= size /\ cText # <<>>) =>
        \/ cOut.err
        \/ cOut = chunk_text(cText, size, size - 1)
        \/ CoversInput

----------------------------------------------------------------------------
(* Claims about semantic_search (checked under SpecSearch). *)

\* C3: every result semantic_search returns has a similarity greater than
\* or equal to the similarity_threshold it was called with.
C3_AboveThreshold ==
    sArgs.called =>
        \A k \in 1..Len(sOut) : sOut[k].similarity >= sArgs.similarity_threshold

\* a search with a positive threshold that returns a result while some row
\* of the searched tables lies below the threshold
C3_Witness ==
    /\ sArgs.called /\ sArgs.search_type = "all" /\ sArgs.company_symbol = ""
    /\ sArgs.similarity_threshold > 0
    /\ Len(sOut) >= 1
    /\ \E i \in DocRowIds : sDocSim[i] < sArgs.similarity_threshold

\* C4: the returned list is ordered by similarity, non-increasing, over the
\* whole list, also when it mixes earnings-call chunks with news chunks.
C4_SortedDescending ==
    sArgs.called =>
        \A i, j \in 1..Len(sOut) : (i < j) => (sOut[i].similarity >= sOut[j].similarity)

\* a result in which a news chunk ranks before an earnings-call chunk of
\* lower similarity
C4_Witness ==
    /\ sArgs.called
    /\ \E i, j \in 1..Len(sOut) :
         /\ i < j
         /\ sOut[i].source = "financial_news"
         /\ sOut[j].source = "earnings_call"
         /\ sOut[i].similarity > sOut[j].similarity

----------------------------------------------------------------------------
(* Claims about the chunk store (Spec) *)

\* C1: when add_earnings_embeddings or add_news_embeddings has just returned
\* without an exception, and the call before it was the same call on the same
\* document and also completed (embedder available, no store failure), both
\* returned the same chunk count and the store holds exactly that many rows
\* of the document.
C1_SameCountReplaced ==
    (IsAdd(last.op) /\ last.clean /\ last.prev >= 0 /\ call.op = "none") =>
        /\ last.ret = last.prev
        /\ Cardinality(RowsOf(TableOf(last.op), last.id)) = last.ret

\* a second complete run over a transcript of more than one batch
C1_Witness ==
    /\ last.op = "add_earnings_embeddings" /\ last.clean /\ call.op = "none"
    /\ last.prev > BatchSize
    /\ last.ret = last.prev

\* C2: in every committed state, during or after a replacement, no document
\* has rows of the old generation together with rows of the new one, and no
\* two rows of a document have the same chunk_type and chunk_index.
C2_NoMixNoDuplicates ==
    /\ \A c \in EarningsIds :
         LET rows == RowsOf(docChunks, c)
         IN  /\ Cardinality({r.gen : r \in rows}) <= 1
             /\ Cardinality({<<r.type, r.index>> : r \in rows}) = Cardinality(rows)
    /\ \A a \in NewsIds :
         LET rows == RowsOf(newsChunks, a)
         IN  /\ Cardinality({r.gen : r \in rows}) <= 1
             /\ Cardinality({r.index : r \in rows}) = Cardinality(rows)

\* a replacement of a transcript's rows between its two batch commits
C2_Witness ==
    /\ call.op = "add_earnings_embeddings" /\ call.phase = "transcript"
    /\ call.prev > BatchSize
    /\ call.i = BatchSize
    /\ Cardinality(RowsOf(docChunks, call.id)) = BatchSize

\* C9: a call of add_earnings_embeddings for an earnings call whose
\* raw_transcript is empty or NULL, or of add_news_embeddings for an article
\* whose content is empty or NULL, returns 0 and commits no chunk row.
C9_EmptyTextNothingEmbedded ==
    /\ (last.op = "add_earnings_embeddings" /\ last.id \in EarningsIds
          /\ ~Truthy(calls[last.id]))
        => (last.ret = 0 /\ last.created = 0)
    /\ (last.op = "add_news_embeddings" /\ last.id \in NewsIds
          /\ ~Truthy(news[last.id]))
        => (last.ret = 0 /\ last.created = 0)

\* C10: in a backfill run with skip_existing, every document that had chunk
\* rows when the loop came to it has the same rows still, was not passed to
\* the embedder, and is not among the documents counted in processed.
C10_SkippedUntouched ==
    run.kind # "none" =>
        /\ \A s \in run.seen :
             /\ RowsOf(TableOf(run.kind), s.id) = s.rows
             /\ s.id \notin run.encoded
             /\ s.id \notin run.counted
        /\ run.processed = Cardinality(run.counted)

\* the end of a run that skipped one document and processed another
C10_Witness ==
    /\ run.kind # "none" /\ run.skip_existing
    /\ run.pos > Len(run.list)
    /\ run.seen # {}
    /\ run.processed > 0

----------------------------------------------------------------------------
(* Claims about a service without an embedder (SpecUnavailable) *)

\* C11: with the embedding model not loaded, no operation writes or deletes
\* a chunk row or visits a document, add_earnings_embeddings,
\* add_news_embeddings and both backfills return 0, and semantic_search
\* returns the empty list.
C11_UnavailableNoEffect ==
    ~embedder =>
        /\ docChunks = UNION {CompleteEarningsRows(c) : c \in EarningsIds}
        /\ newsChunks = UNION {CompleteNewsRows(a) : a \in NewsIds}
        /\ call = NoCall /\ run = NoRun
        /\ last.ret = 0 /\ last.created = 0
        /\ sOut = <<>>

\* a search and then a backfill over a database that holds chunk rows
C11_Witness ==
    /\ ~embedder
    /\ sArgs.called
    /\ last.op = "backfill_earnings_embeddings"
    /\ docChunks # {} /\ newsChunks # {}

----------------------------------------------------------------------------
(* Further claims about the chunk store (Spec) *)

\* C12: the integer add_earnings_embeddings or add_news_embeddings returns
\* is the number of chunk rows the call committed; in particular a call that
\* returned 0 committed none.
C12_ReturnCountsRows ==
    IsAdd(last.op) => last.ret = last.created

----------------------------------------------------------------------------
(* Claims about determine_outlook_sentiment (SpecSentiment) *)

\* occurrences in the transcript of the keywords of a list
OccurrenceCount(t, kind) ==
    LET forms == {f \in WordForms : Lowered[f] \in Keywords[kind]}
        total[S \in SUBSET forms] ==
            IF S = {} THEN 0
            ELSE LET f == CHOOSE x \in S : TRUE IN t[f] + total[S \ {f}]
    IN  total[forms]

\* the label of the keyword set with the strictly highest number of
\* occurrences, Neutral on a tie
ByOccurrences(t) ==
    LET p == OccurrenceCount(t, "positive")
        n == OccurrenceCount(t, "negative")
        u == OccurrenceCount(t, "neutral")
    IN  IF p > n /\ p > u THEN Str("Positive")
        ELSE IF n > p /\ n > u THEN Str("Negative")
        ELSE Str("Neutral")

\* C13: when the LLM's response is empty or its word is not accepted, the
\* result is the label of the keyword set that occurs most often in the
\* lower-cased transcript, counting every occurrence, and Neutral on a tie.
C13_FallbackCountsOccurrences ==
    (oOut.op = "determine_outlook_sentiment" /\ LLMWord[oResponse] = <<>>) =>
        oOut.word = ByOccurrences(oTranscript)

\* C14: the result is one word of the six the prompt offers, whatever the
\* LLM returned.
C14_ResultInPromptOptions ==
    oOut.op = "determine_outlook_sentiment" => oOut.word \in PromptOptions

----------------------------------------------------------------------------
(* Claims about summarization (SpecSummarize) *)

\* the records of a document have pairwise different summary types
OnePerType(records) ==
    \A i, j \in 1..Len(records) :
        records[i].summary_type = records[j].summary_type => i = j

\* C15: after any sequence of save_summaries calls and runs, every earnings
\* call and every news article has at most one summary record of each
\* summary type: a save replaces the document's records in one transaction.
C15_OneRecordPerType ==
    /\ \A c \in EarningsIds : OnePerType(summaries[c])
    /\ \A a \in NewsIds : OnePerType(newsSummaries[a])

\* an earnings call loaded without a transcript, hence with three records
\* and never summarized by a run, whose records a save has replaced by one
C15_Witness ==
    \E c \in EarningsIds :
        /\ ~Truthy(calls[c])
        /\ summaries[c] = ReplaceSummaries(ManageSummaries,
                                           Dict(SummaryTypes, <<EMPTY, Text(0), Text(1)>>))

\* the summary table a run reads and writes
RecordsOf(kind, id) ==
    IF kind = "process_news_articles" THEN newsSummaries[id] ELSE summaries[id]

\* C16: in a run of process_earnings_calls or process_news_articles, a
\* document that had summary records when the loop came to it has the same
\* records still, and no LLM call was made for it.
C16_SummarizedSkipped ==
    sumRun.kind # "none" =>
        \A s \in sumRun.seen :
            /\ RecordsOf(sumRun.kind, s.id) = s.records
            /\ s.id \notin sumRun.llm

\* the end of a run that skipped one document and summarized another
C16_Witness ==
    /\ sumRun.kind # "none"
    /\ sumRun.pos > Len(sumRun.list)
    /\ sumRun.seen # {}
    /\ \E id \in sumRun.llm : RecordsOf(sumRun.kind, id) # <<>>

----------------------------------------------------------------------------
(* Claims about failure and interruption of the chunk store (Spec) *)

\* C17: when add_earnings_embeddings or add_news_embeddings has failed with
\* an exception (embedding error, store error), the chunk rows the document
\* had before the call have not been deleted.
C17_FailureKeepsRows ==
    (IsAdd(last.op) /\ ~last.clean) => ~last.deleted

TranscriptRows(id) == {r \in RowsOf(docChunks, id) : r.type = "transcript"}

\* the transcript rows of the first b batches of a generation
TranscriptPrefix(id, b) ==
    {r \in CompleteEarningsRows(id) :
        r.type = "transcript" /\ r.index < b * BatchSize}

\* C18: wherever add_earnings_embeddings or a backfill run is interrupted,
\* the committed transcript rows of every earnings call are whole batches
\* 0..b-1 of one generation (all of them, or a prefix); the calls the run
\* has processed have their complete rows, and the rows of the documents
\* the run has not reached are as they were when it started.
C18_InterruptedPrefix ==
    /\ \A c \in EarningsIds :
         LET rows == TranscriptRows(c)
             b == (Cardinality(rows) + BatchSize - 1) \div BatchSize
         IN  rows = TranscriptPrefix(c, b)
    /\ run.kind = "backfill_earnings_embeddings" =>
         \A c \in run.counted : RowsOf(docChunks, c) = CompleteEarningsRows(c)
    /\ \A s \in run.ahead : RowsOf(TableOf(run.kind), s.id) = s.rows

\* interrupted between the two batches of a transcript
C18_Witness ==
    /\ last.op = "interrupted" /\ last.id \in EarningsIds
    /\ Cardinality(TranscriptRows(last.id)) = BatchSize
    /\ TranscriptRows(last.id) # TranscriptPrefix(last.id, 2)

\* the rows of one document under one partition tag
Partition(rows, id, tag) == {r \in RowsOf(rows, id) : r.type = tag}

DistinctIndices(part) ==
    Cardinality({r.index : r \in part}) = Cardinality(part)

\* indices 0..n-1, growing with the position of the chunk in its text
ZeroBasedInOrder(part) ==
    /\ {r.index : r \in part} = 0..(Cardinality(part) - 1)
    /\ \A r1, r2 \in part : r1.index < r2.index => r1.lo < r2.lo

\* C19: in every state the chunk_index values of the rows of one document
\* and one chunk_type (transcript, summary_<type>, news) are pairwise
\* distinct, and once an add_*_embeddings call for the document has
\* completed they are exactly 0..n-1 in chunk order.
C19_IndicesPerPartition ==
    /\ \A c \in EarningsIds :
         \A tag \in {r.type : r \in RowsOf(docChunks, c)} :
             DistinctIndices(Partition(docChunks, c, tag))
    /\ \A a \in NewsIds : DistinctIndices(Partition(newsChunks, a, "news"))
    /\ (IsAdd(last.op) /\ last.clean /\ call.op = "none") =>
         \A tag \in {r.type : r \in RowsOf(TableOf(last.op), last.id)} :
             ZeroBasedInOrder(Partition(TableOf(last.op), last.id, tag))

\* a completed call that wrote a transcript in two batches and the chunks of
\* several summaries, one of them of more than one chunk
C19_Witness ==
    /\ last.op = "add_earnings_embeddings" /\ last.clean /\ call.op = "none"
    /\ LET rows == RowsOf(docChunks, last.id)
       IN  /\ Cardinality(Partition(docChunks, last.id, "transcript")) > BatchSize
           /\ Cardinality({r.type : r \in rows}) >= 3
           /\ \E r \in rows : r.type # "transcript" /\ r.index > 0

----------------------------------------------------------------------------
(* Claims about the batch runs of the summarizers (SpecSummarize) *)

\* C20: a failure on one document never stops a batch run: when
\* process_earnings_calls or process_news_articles has ended, every document
\* of the selected list has been visited, each exactly once and in the
\* order of the list.
C20_FailureNeverStopsRun ==
    sumLast.op # "none" => sumLast.visited = sumLast.list

----------------------------------------------------------------------------
(* Further claims about the chunkers under a character budget (SpecChunk) *)

\* the tokens of the text the chunker was applied to
Tokens ==
    IF cOp = "chunk_content" THEN split_sep(cText, <<".", " ">>) ELSE split(cText)

\* what the chunker adds to len(token): 1 for " ", 2 for ". "
Separator == IF cOp = "chunk_content" THEN 2 ELSE 1

OverlapCap == IF cOp = "chunk_content" THEN SentenceOverlapCap ELSE WordOverlapCap

\* the chunks of the call as token lists
TokenChunks == BudgetChunks(Tokens, size, Separator, OverlapCap)

\* The same chunks with every token led by its position in the text: a
\* token one longer under a separator one shorter costs the same, so the
\* loop cuts at the same places.
PositionChunks ==
    BudgetChunks([k \in 1..Len(Tokens) |-> <<k>> \o Tokens[k]],
                 size, Separator - 1, OverlapCap)

\* how many tokens of chunk k were already in chunk k - 1
Repeated(k) ==
    Cardinality({i \in 1..Len(PositionChunks[k]) :
                   \E j \in 1..Len(PositionChunks[k - 1]) :
                       PositionChunks[k - 1][j][1] = PositionChunks[k][i][1]})

\* C24: in chunk_content every chunk after the first repeats at most 2
\* sentences of the chunk before it; in chunk_transcript at most 100 words
\* and at most a quarter of the words of the chunk before it.
C24_BoundedOverlap ==
    /\ cOp = "chunk_content" =>
         \A k \in 2..Len(PositionChunks) : Repeated(k) <= SentenceOverlapCap
    /\ cOp = "chunk_transcript" =>
         \A k \in 2..Len(PositionChunks) :
             /\ Repeated(k) <= WordOverlapCap
             /\ OverlapDivisor * Repeated(k) <= Len(PositionChunks[k - 1])

\* C30: in chunk_transcript and chunk_content every chunk of more than one
\* token has a length, counted as len(token) + separator per token, of at
\* most max_chunk_size.
C30_WithinBudget ==
    cOp \in {"chunk_transcript", "chunk_content"} =>
        \A k \in 1..Len(TokenChunks) :
            Len(TokenChunks[k]) > 1 =>
                SumLen(TokenChunks[k], Separator) <= size

----------------------------------------------------------------------------
(* Further claims about the sentiment classification (SpecSentiment) *)

\* the LLM's answer was empty or not a word of the function's vocabulary
Rejected ==
    IF oOut.op = "determine_news_sentiment"
    THEN NewsLLMWord[oResponse] = <<>>
    ELSE LLMWord[oResponse] = <<>>

\* C22: when the LLM's answer is empty or outside the allowed vocabulary,
\* determine_outlook_sentiment and determine_news_sentiment return what the
\* keyword classifier gives for the document text.
C22_FallbackIsKeywordClassifier ==
    (oOut.done /\ Rejected) => oOut.word = KeywordFallback(oTranscript)

----------------------------------------------------------------------------
(* Further claims about semantic_search (SpecSearch) *)

\* the search ran its queries: an embedder, no exception
Searched == sArgs.called /\ embedder /\ sArgs.env = "ok"

\* the rows of the queried tables that pass the filters and the threshold
PassingDocs ==
    IF sArgs.search_type \in {"all", "transcript", "summary"}
    THEN {i \in DocRowIds : DocFilter(i, sArgs)} ELSE {}

PassingNews ==
    IF sArgs.search_type \in {"all", "news"}
    THEN {i \in NewsRowIds : NewsFilter(i, sArgs)} ELSE {}

\* how many passing rows have a similarity in the set `levels`
PassingAt(levels) ==
    Cardinality({i \in PassingDocs : sDocSim[i] \in levels})
    + Cardinality({i \in PassingNews : sNewsSim[i] \in levels})

\* how many rows of similarity v the min(limit, n) best passing rows hold
TopCount(v) ==
    LET k == Min(sArgs.limit, PassingAt(SimLevels))
        above == PassingAt({w \in SimLevels : w > v})
    IN  Min(PassingAt({v}), IF k > above THEN k - above ELSE 0)

ReturnedAt(v) == Cardinality({j \in 1..Len(sOut) : sOut[j].similarity = v})

\* C27: the similarities semantic_search returns are, as a multiset, those
\* of the min(limit, n) best of the n rows of the queried tables that pass
\* the filters and the threshold, and it never returns more than `limit`.
C27_GlobalTopK ==
    Searched =>
        /\ Len(sOut) <= sArgs.limit
        /\ \A v \in SimLevels : ReturnedAt(v) = TopCount(v)

\* both tables have more passing rows than the limit, the result takes
\* rows of both, and a passing row of lower similarity is left out
C27_Witness ==
    /\ Searched /\ sArgs.search_type = "all"
    /\ sArgs.limit >= 2
    /\ Cardinality(PassingDocs) >= sArgs.limit
    /\ Cardinality(PassingNews) >= sArgs.limit
    /\ \E i, j \in 1..Len(sOut) :
         sOut[i].source = "earnings_call" /\ sOut[j].source = "financial_news"
    /\ \E i \in PassingDocs : \A j \in 1..Len(sOut) : sDocSim[i] < sOut[j].similarity

----------------------------------------------------------------------------
(* Further claims about the summarization runs (SpecSummarize) *)

\* processing_status of a document of the run's table
StatusOf(op, id) ==
    IF op = "process_news_articles" THEN newsStatus[id] ELSE status[id]

\* C21: after process_earnings_calls or process_news_articles has returned,
\* the processing_status of every document it attempted is "completed" if
\* its summaries were saved and "failed" otherwise, never "pending".
C21_StatusRecorded ==
    (sumLast.op # "none" /\ ~sumLast.raised) =>
        \A id \in sumLast.attempted :
            StatusOf(sumLast.op, id) =
                (IF id \in sumLast.faults THEN "failed" ELSE "completed")

NonBlank(records) ==
    \A k \in 1..Len(records) :
        Truthy(records[k].content) /\ records[k].content.words > 0

\* C28: a document with text that a run attempted without a store error
\* holds at least one summary record, whatever the LLM answered; no stored
\* record has empty or blank content; and the next run of the same kind
\* makes no LLM call for such a document.
C28_RunIdempotent ==
    /\ \A id \in sumRun.llm \ sumRun.faults : RecordsOf(sumRun.kind, id) # <<>>
    /\ \A c \in EarningsIds : NonBlank(summaries[c])
    /\ \A a \in NewsIds : NonBlank(newsSummaries[a])
    /\ (sumRun.kind # "none" /\ sumRun.kind = sumLast.op) =>
         \A id \in sumLast.attempted \ sumLast.faults :
             /\ id \notin sumRun.llm
             /\ RecordsOf(sumRun.kind, id) # <<>>

\* the second run has come past a document that the run before summarized
\* while every LLM call failed: the sentiment is its only record
C28_Witness ==
    /\ sumRun.kind # "none" /\ sumRun.kind = sumLast.op
    /\ \E id \in sumLast.attempted \ sumLast.faults :
         /\ \E k \in 1..Len(sumRun.visited) : sumRun.visited[k] = id
         /\ Len(RecordsOf(sumRun.kind, id)) = 1

----------------------------------------------------------------------------
(* Claims about the pauses of a backfill run (SpecPause) *)

\* C25: whenever a backfill run pauses, exactly K documents (5 for earnings
\* calls, 10 for news articles) have been handed to add_*_embeddings since
\* the pause before it, or since the start of the run.
C25_PauseEveryK ==
    walk.slept => walk.gap = PauseEvery(walk.kind)

----------------------------------------------------------------------------
(* Claims about generate_executive_summary (SpecExecutive) *)

\* the chunks whose map call returned text
Answered == {i \in 1..Len(execRun.answers) : execRun.answers[i]}

\* C23: the LLM calls of generate_executive_summary are the map calls for
\* the chunks 1..min(n, 8), in this order, and after them one reduce call,
\* at most 9 calls in all; the reduce call's input holds the non-empty
\* partial summaries in chunk order.
C23_MapThenReduce ==
    LET calls_made == execRun.calls
        m == Min(execRun.n, ExecChunkCap)
    IN  /\ Len(calls_made) <= ExecChunkCap + 1
        /\ \A k \in 1..Len(calls_made) :
             IF k <= m
             THEN calls_made[k].kind = "map" /\ calls_made[k].chunk = k
             ELSE /\ k = m + 1
                  /\ calls_made[k].kind = "reduce"
                  /\ LET input == calls_made[k].input
                     IN  /\ {input[j] : j \in 1..Len(input)} = Answered
                         /\ \A j \in 1..(Len(input) - 1) : input[j] < input[j + 1]
        /\ execRun.phase = "returned" => Len(calls_made) = m + 1

\* a transcript of more chunks than the cap, summarized with LLM calls that
\* failed and LLM calls that answered
C23_Witness ==
    /\ execRun.phase = "returned"
    /\ execRun.n > ExecChunkCap
    /\ Len(execRun.calls) = ExecChunkCap + 1
    /\ Answered # {} /\ Answered # 1..ExecChunkCap

----------------------------------------------------------------------------
(* Claims about extract_forward_guidance (SpecGuidance) *)

\* the lines within 2 lines of a line with a guidance keyword
NearMatch ==
    {j \in 1..Len(gLines) :
        \E i \in 1..Len(gLines) :
            gLines[i] /\ j - i <= GuidanceContext /\ i - j <= GuidanceContext}

\* C26: when a line matches a guidance keyword, the text given to the LLM
\* holds exactly the lines within 2 lines of a matching line, each once and
\* in document order; when none matches, it is the first 3000 characters of
\* the transcript.
C26_WindowLinesOnce ==
    gOut.kind # "none" =>
        IF \E i \in 1..Len(gLines) : gLines[i]
        THEN /\ gOut.kind = "lines"
             /\ {gOut.lines[k] : k \in 1..Len(gOut.lines)} = NearMatch
             /\ \A k \in 1..(Len(gOut.lines) - 1) : gOut.lines[k] < gOut.lines[k + 1]
        ELSE gOut.kind = "prefix" /\ gOut.chars = GuidanceCap

----------------------------------------------------------------------------
(* Claims about repeated backfill runs (SpecConverge) *)

\* the transcript rows of a complete chunk set
CompleteTranscriptRows(id) ==
    {r \in CompleteEarningsRows(id) : r.type = "transcript"}

\* C29: when a backfill_earnings_embeddings run with skip_existing=True has
\* gone through its list without interruption or failure, after earlier
\* such runs that were interrupted or met failures, every earnings call of
\* its list that has a transcript has its complete transcript chunk rows.
C29_BackfillConverges ==
    (/\ run.kind = "backfill_earnings_embeddings"
     /\ run.skip_existing /\ ~run.failed
     /\ run.pos > Len(run.list))
    => \A k \in 1..Len(run.list) :
         Truthy(calls[run.list[k]]) =>
             TranscriptRows(run.list[k]) = CompleteTranscriptRows(run.list[k])

====
